---- MODULE Spec2Model ----
(***************************************************************************)
(* Model of the pixie_stitch launcher (src/launcher/src/main_launcher.rs): *)
(* palette extraction, symbol assignment, pattern canvas rendering, grid   *)
(* labels, segmentation and the per-image fan-out of render jobs in main.  *)
(*                                                                         *)
(* Bitmaps are modelled structurally.  A pattern canvas is not a pixel     *)
(* array but the list of what create_cross_stitch_pattern drew: one record *)
(* per cell (fill, symbol), the full-height / full-width rectangles of the *)
(* grid and origin bars in drawing order, the labels and the banner.       *)
(***************************************************************************)
EXTENDS Integers, Sequences, FiniteSets, TLC

VARIABLES
    symbols,          \* main: the graphic symbol pool loaded by collect_symbols
    image_filepaths,  \* main: the list of input image paths
    image_index,      \* main: position of the `for image_filepath` loop (1-based)
    pc,               \* main: where the main thread is
    image,            \* main: the Bitmap returned by open_image
    color_mappings,   \* main: the IndexMap<PixelRGBA, ColorInfo> of the image
    pending,          \* the render jobs spawned in the rayon scopes, not yet run
    files,            \* the file system below the executable dir: path -> file
    messages,         \* the message boxes shown so far, in order
    render_job,       \* the arguments of one create_cross_stitch_pattern call
    canvas            \* the final_bitmap of that call

vars == <<symbols, image_filepaths, image_index, pc, image, color_mappings,
          pending, files, messages, render_job, canvas>>

----------------------------------------------------------------------------
(* Program constants *)

TILE_SIZE == 16
LEGEND_BLOCK_ENTRY_COUNT == 5
SPLIT_SEGMENT_WIDTH == 60
SPLIT_SEGMENT_HEIGHT == 80

PixelRGBA(r, g, b, a) == [r |-> r, g |-> g, b |-> b, a |-> a]

COLOR_GRID_THIN == PixelRGBA(128, 128, 128, 255)
COLOR_GRID_THICK == PixelRGBA(64, 64, 64, 255)
White == PixelRGBA(255, 255, 255, 255)
Black == PixelRGBA(0, 0, 0, 255)
Transparent == PixelRGBA(0, 0, 0, 0)

\* "123456789ABCDEFGHIJKLMNOPQRSTUVWXYZ".chars()
ALPHANUM_CHARS ==
    <<"1", "2", "3", "4", "5", "6", "7", "8", "9", "A", "B", "C", "D", "E",
      "F", "G", "H", "I", "J", "K", "L", "M", "N", "O", "P", "Q", "R", "S",
      "T", "U", "V", "W", "X", "Y", "Z">>

\* ["stitch1.png", "stitch2.png", "stitch3.png"]
STITCH_TILE_IMAGES == <<"stitch1.png", "stitch2.png", "stitch3.png">>

----------------------------------------------------------------------------
(* Small helpers *)

Max2(a, b) == IF a >= b THEN a ELSE b
Min2(a, b) == IF a <= b THEN a ELSE b
SetMax(S) == CHOOSE m \in S : \A n \in S : n <= m
Abs(a) == IF a < 0 THEN -a ELSE a

\* Rust's `a % b` on i32 for b > 0: the remainder has the sign of a.
RustRem(a, b) == IF a >= 0 THEN a % b ELSE -((-a) % b)

\* Rust's `a / b` on i32 for b > 0: truncation toward zero.
RustDiv(a, b) == IF a >= 0 THEN a \div b ELSE -((-a) \div b)

\* i32::to_string: decimal digits, a leading '-' for negative values.
DigitChar(d) ==
    CASE d = 0 -> "0" [] d = 1 -> "1" [] d = 2 -> "2" [] d = 3 -> "3"
      [] d = 4 -> "4" [] d = 5 -> "5" [] d = 6 -> "6" [] d = 7 -> "7"
      [] d = 8 -> "8" [] d = 9 -> "9"

RECURSIVE NatToString(_)
NatToString(n) ==
    IF n < 10 THEN DigitChar(n)
    ELSE NatToString(n \div 10) \o DigitChar(n % 10)

I32ToString(n) == IF n < 0 THEN "-" \o NatToString(-n) ELSE NatToString(n)

----------------------------------------------------------------------------
(* Bitmaps *)

\* Bitmap { width, height, data }: data is row-major, 1-based here.
Bitmap(w, h, data) == [width |-> w, height |-> h, data |-> data]

NoBitmap == Bitmap(0, 0, <<>>)

\* Bitmap::get(x, y)
BitmapGet(bitmap, x, y) == bitmap.data[y * bitmap.width + x + 1]

----------------------------------------------------------------------------
(* PixelRGBA::compare_by_hue_luminosity_saturation: hue, then luminosity,  *)
(* then saturation of the HSL value of (r, g, b).  The three keys are kept *)
(* as exact fractions and compared by cross-multiplication.                *)

HslOf(p) ==
    LET max == Max2(p.r, Max2(p.g, p.b))
        min == Min2(p.r, Min2(p.g, p.b))
        d   == max - min
    IN  IF d = 0
        THEN [h_num |-> 0, h_den |-> 1, l |-> max + min, s_num |-> 0, s_den |-> 1]
        ELSE [h_num |-> IF max = p.r
                          THEN (p.g - p.b) + (IF p.g < p.b THEN 6 * d ELSE 0)
                          ELSE IF max = p.g
                                 THEN (p.b - p.r) + 2 * d
                                 ELSE (p.r - p.g) + 4 * d,
              h_den |-> d,
              l     |-> max + min,
              s_num |-> d,
              s_den |-> IF max + min > 255 THEN 510 - max - min ELSE max + min]

CompareFraction(an, ad, bn, bd) ==
    IF an * bd < bn * ad THEN "Less"
    ELSE IF an * bd > bn * ad THEN "Greater" ELSE "Equal"

compare_by_hue_luminosity_saturation(color_a, color_b) ==
    LET a == HslOf(color_a)
        b == HslOf(color_b)
        by_h == CompareFraction(a.h_num, a.h_den, b.h_num, b.h_den)
        by_l == CompareFraction(a.l, 1, b.l, 1)
        by_s == CompareFraction(a.s_num, a.s_den, b.s_num, b.s_den)
    IN  IF by_h /= "Equal" THEN by_h
        ELSE IF by_l /= "Equal" THEN by_l ELSE by_s

----------------------------------------------------------------------------
(* IndexMap<PixelRGBA, ColorInfo> is a sequence of ColorInfo records with  *)
(* pairwise different .color, in the map's iteration order.                *)

Symbol(pool, index, glyph) == [pool |-> pool, index |-> index, glyph |-> glyph]

\* Bitmap::new_empty() in the symbol fields of a fresh ColorInfo.
NoSymbol == Symbol("none", 0, "")

ColorInfo(color, count) ==
    [color |-> color, count |-> count, symbol |-> NoSymbol,
     symbol_alphanum |-> NoSymbol, stitches_premultiplied |-> <<>>]

\* IndexMap::get_index_of: 0 when the key is absent.
IndexOfKey(map, key) ==
    IF \E i \in 1..Len(map) : map[i].color = key
    THEN CHOOSE i \in 1..Len(map) : map[i].color = key
    ELSE 0

\* IndexMap::get
MapGet(map, key) == map[IndexOfKey(map, key)]

\* IndexMap::sort_by: a stable sort of the entries by the comparator on keys.
RECURSIVE InsertSorted(_, _)
InsertSorted(sorted, entry) ==
    IF sorted = <<>> THEN <<entry>>
    ELSE LET last == sorted[Len(sorted)]
         IN  IF compare_by_hue_luminosity_saturation(last.color, entry.color) = "Greater"
             THEN Append(InsertSorted(SubSeq(sorted, 1, Len(sorted) - 1), entry), last)
             ELSE Append(sorted, entry)

RECURSIVE SortFrom(_, _, _)
SortFrom(map, i, sorted) ==
    IF i > Len(map) THEN sorted
    ELSE SortFrom(map, i + 1, InsertSorted(sorted, map[i]))

sort_by(map) == SortFrom(map, 1, <<>>)

\* ExtractPixel without the `if pixel.a == 0 { continue }` test.
ExtractPixelKeepsTransparent(map, pixel) ==
    LET k == IndexOfKey(map, pixel)
    IN  IF k = 0
        THEN Append(map, ColorInfo(pixel, 0 + 1))
        ELSE [map EXCEPT ![k].count = @ + 1]

\* The body of the `for pixel in &image.data` loop of
\* image_extract_colors_and_counts.
ExtractPixel(map, pixel) ==
    LET k == IndexOfKey(map, pixel)
    IN  IF pixel.a = 0
        THEN map
        ELSE IF k = 0
             THEN Append(map, ColorInfo(pixel, 0 + 1))
             ELSE [map EXCEPT ![k].count = @ + 1]

\* The loop over data[lo..hi], in order, starting from `map`.  The range is
\* split in halves to keep the evaluation shallow; the pixels are still
\* visited first to last.
RECURSIVE ExtractScan(_, _, _, _)
ExtractScan(data, lo, hi, map) ==
    IF lo > hi THEN map
    ELSE IF lo = hi THEN ExtractPixel(map, data[lo])
    ELSE LET mid == (lo + hi) \div 2
             left == ExtractScan(data, lo, mid, map)
         IN  IF Len(left) >= 0 THEN ExtractScan(data, mid + 1, hi, left) ELSE left

\* image_extract_colors_and_counts without the sort_by call.
image_extract_colors_and_counts_unsorted(bitmap) ==
    ExtractScan(bitmap.data, 1, Len(bitmap.data), <<>>)

\* image_extract_colors_and_counts ignoring every pixel that is not opaque.
image_extract_colors_and_counts_opaque(bitmap) ==
    LET opaque == SelectSeq(bitmap.data, LAMBDA pixel : pixel.a = 255)
    IN  sort_by(ExtractScan(opaque, 1, Len(opaque), <<>>))

image_extract_colors_and_counts(bitmap) ==
    sort_by(ExtractScan(bitmap.data, 1, Len(bitmap.data), <<>>))

----------------------------------------------------------------------------
(* Symbols and colour mappings *)

\* collect_symbols: one Bitmap per numerically named png of the resource dir.
GraphicSymbols(n) == [i \in 1..n |-> Symbol("graphic", i, "png")]

\* create_alphanumeric_symbols: one Bitmap per char of the 35-char string.
create_alphanumeric_symbols ==
    [i \in 1..Len(ALPHANUM_CHARS) |-> Symbol("alphanum", i, ALPHANUM_CHARS[i])]

\* Bitmap::rect of a symbol.  The symbols fit a tile, except the pngs of the
\* resource dir that are a pixel larger than a tile ("oversized").
symbol_rect(symbol) ==
    IF symbol.pool = "oversized"
    THEN [width |-> TILE_SIZE + 1, height |-> TILE_SIZE + 1]
    ELSE [width |-> TILE_SIZE, height |-> TILE_SIZE]

OversizedSymbol(i) == Symbol("oversized", i, "png")

\* The asserts of blit_symbol: the message of the first that fails, "" when
\* all hold.
blit_symbol_assert(symbol, image_width, image_height, pos_x, pos_y) ==
    IF ~(pos_x >= 0) THEN "assertion failed: pos.x >= 0"
    ELSE IF ~(pos_y >= 0) THEN "assertion failed: pos.y >= 0"
    ELSE IF ~(pos_x + symbol_rect(symbol).width <= image_width)
         THEN "assertion failed: pos.x + symbol_rect.width() <= image.width"
    ELSE IF ~(pos_y + symbol_rect(symbol).height <= image_height)
         THEN "assertion failed: pos.y + symbol_rect.height() <= image.height"
    ELSE ""

\* Color::from_pixelrgba(color).to_relative_luminance() > 0.2, in units of
\* 1/(255 * 10000): the Rec. 709 weighted sum of the channels.
LuminanceAboveThreshold(color) ==
    2126 * color.r + 7152 * color.g + 722 * color.b > 2 * 255 * 1000

\* blit_symbol: blit_color
BlitColor(dest_color) == IF LuminanceAboveThreshold(dest_color) THEN Black ELSE White

\* blit_symbol inking every pixel of the symbol, the masked ones too.
blit_symbol_unmasked(symbol_bitmap, destination, pos, mask_color) ==
    LET blit_color == BlitColor(BitmapGet(destination, pos.x, pos.y))
        stamped(px, py) ==
            /\ px >= pos.x /\ px < pos.x + symbol_bitmap.width
            /\ py >= pos.y /\ py < pos.y + symbol_bitmap.height
    IN  IF pos.x < 0 \/ pos.y < 0 \/ pos.x + symbol_bitmap.width > destination.width
           \/ pos.y + symbol_bitmap.height > destination.height
        THEN [panic |-> "assertion failed", value |-> destination]
        ELSE [panic |-> "",
              value |-> [destination EXCEPT !.data =
                           [i \in 1..Len(destination.data) |->
                               IF stamped((i - 1) % destination.width, (i - 1) \div destination.width)
                               THEN blit_color ELSE destination.data[i]]]]

\* blit_symbol on bitmaps of pixels: the panic of its asserts, or the
\* image after the two loops over the symbol's pixels.
blit_symbol(symbol_bitmap, destination, pos, mask_color) ==
    LET failed == IF ~(pos.x >= 0) THEN "assertion failed: pos.x >= 0"
                  ELSE IF ~(pos.y >= 0) THEN "assertion failed: pos.y >= 0"
                  ELSE IF ~(pos.x + symbol_bitmap.width <= destination.width)
                       THEN "assertion failed: pos.x + symbol_rect.width() <= destination.width"
                  ELSE IF ~(pos.y + symbol_bitmap.height <= destination.height)
                       THEN "assertion failed: pos.y + symbol_rect.height() <= destination.height"
                  ELSE ""
        blit_color == BlitColor(BitmapGet(destination, pos.x, pos.y))
        stamped(px, py) ==
            /\ px >= pos.x /\ px < pos.x + symbol_bitmap.width
            /\ py >= pos.y /\ py < pos.y + symbol_bitmap.height
            /\ BitmapGet(symbol_bitmap, px - pos.x, py - pos.y) /= mask_color
    IN  IF failed /= ""
        THEN [panic |-> failed, value |-> destination]
        ELSE [panic |-> "",
              value |-> [destination EXCEPT !.data =
                           [i \in 1..Len(destination.data) |->
                               IF stamped((i - 1) % destination.width, (i - 1) \div destination.width)
                               THEN blit_color ELSE destination.data[i]]]]

Ok(value) == [panic |-> "", value |-> value]
Panic(message) == [panic |-> message, value |-> <<>>]

\* The coloured stitch tiles of one entry: one per base stitch image, and
\* only for a colour with alpha /= 0.
ColorizedStitches(color) ==
    IF color.a /= 0
    THEN [i \in 1..Len(STITCH_TILE_IMAGES) |-> [base |-> STITCH_TILE_IMAGES[i], color |-> color]]
    ELSE <<>>

\* ZipSymbols pairing the entries with the pool taken from its far end.
ZipSymbolsReversed(map, pool) ==
    [i \in 1..Len(map) |->
        IF i <= Len(pool) THEN [map[i] EXCEPT !.symbol = pool[Len(pool) - i + 1]] ELSE map[i]]

\* `for (entry, symbol) in color_mappings.values_mut().zip(symbols.iter())`
ZipSymbols(map, pool) ==
    [i \in 1..Len(map) |->
        IF i <= Len(pool) THEN [map[i] EXCEPT !.symbol = pool[i]] ELSE map[i]]

ZipSymbolsAlphanum(map, pool) ==
    [i \in 1..Len(map) |->
        IF i <= Len(pool) THEN [map[i] EXCEPT !.symbol_alphanum = pool[i]] ELSE map[i]]

\* create_color_mappings_from_image without the first assert!.
create_color_mappings_unchecked_symbols(bitmap, image_filepath, pool, pool_alphanum) ==
    LET extracted == image_extract_colors_and_counts(bitmap)
    IN  IF ~(Len(pool_alphanum) >= Len(extracted))
        THEN Panic("Not enough symbols to map " \o I32ToString(Len(extracted))
                   \o " colors found in given image '" \o image_filepath
                   \o "' for paint by numbers")
        ELSE LET assigned == ZipSymbolsAlphanum(ZipSymbols(extracted, pool), pool_alphanum)
             IN  Ok([i \in 1..Len(assigned) |->
                       [assigned[i] EXCEPT
                          !.stitches_premultiplied = ColorizedStitches(assigned[i].color)]])

\* create_color_mappings_from_image without the second assert!.
create_color_mappings_unchecked_alphanum(bitmap, image_filepath, pool, pool_alphanum) ==
    LET extracted == image_extract_colors_and_counts(bitmap)
    IN  IF ~(Len(pool) >= Len(extracted))
        THEN Panic("Not enough symbols to map " \o I32ToString(Len(extracted))
                   \o " colors found in given image '" \o image_filepath
                   \o "' for cross stitch")
        ELSE LET assigned == ZipSymbolsAlphanum(ZipSymbols(extracted, pool), pool_alphanum)
             IN  Ok([i \in 1..Len(assigned) |->
                       [assigned[i] EXCEPT
                          !.stitches_premultiplied = ColorizedStitches(assigned[i].color)]])

create_color_mappings_from_image(bitmap, image_filepath, pool, pool_alphanum) ==
    LET extracted == image_extract_colors_and_counts(bitmap)
        count == I32ToString(Len(extracted))
    IN  IF ~(Len(pool) >= Len(extracted))
        THEN Panic("Not enough symbols to map " \o count
                   \o " colors found in given image '" \o image_filepath
                   \o "' for cross stitch")
        ELSE IF ~(Len(pool_alphanum) >= Len(extracted))
        THEN Panic("Not enough symbols to map " \o count
                   \o " colors found in given image '" \o image_filepath
                   \o "' for paint by numbers")
        ELSE LET assigned == ZipSymbolsAlphanum(ZipSymbols(extracted, pool), pool_alphanum)
             IN  Ok([i \in 1..Len(assigned) |->
                       [assigned[i] EXCEPT
                          !.stitches_premultiplied = ColorizedStitches(assigned[i].color)]])

----------------------------------------------------------------------------
(* Bitmap::to_segments and make_even_upwards (cottontail) *)

CeilDiv(a, b) == (a + b - 1) \div b

\* The crop of `bitmap` at tile (c, r) for tiles of at most sw x sh.
SegmentImage(bitmap, sw, sh, c, r) ==
    LET w == Min2(sw, bitmap.width - sw * c)
        h == Min2(sh, bitmap.height - sh * r)
    IN  Bitmap(w, h,
               [i \in 1..(w * h) |->
                   BitmapGet(bitmap, sw * c + ((i - 1) % w), sh * r + ((i - 1) \div w))])

\* to_segments: (segment images, their tile coordinates), row-major.
to_segments(bitmap, sw, sh) ==
    LET cols == CeilDiv(bitmap.width, sw)
        rows == CeilDiv(bitmap.height, sh)
        coordinates == [i \in 1..(cols * rows) |->
                           [x |-> (i - 1) % cols, y |-> (i - 1) \div cols]]
    IN  [images |-> [i \in 1..(cols * rows) |->
                        SegmentImage(bitmap, sw, sh, coordinates[i].x, coordinates[i].y)],
         coordinates |-> coordinates]

make_even_upwards(x) == IF x % 2 = 0 THEN x ELSE x + 1

\* ceil_to_multiple_of_target_i32 / floor_to_multiple_of_target_i32
floor_to_multiple_of_target_i32(value, target) == value - (value % target)
ceil_to_multiple_of_target_i32(value, target) ==
    IF value % target = 0 THEN value ELSE value - (value % target) + target

----------------------------------------------------------------------------
(* Drawing on the scaled bitmap.  The bitmap keeps its size, the list of   *)
(* rectangles drawn over the cells (in drawing order) and the position of  *)
(* cell (0, 0), which moves when the bitmap is extended.                   *)

Rect(x, y, w, h, color) == [x |-> x, y |-> y, w |-> w, h |-> h, color |-> color]

ScaledBitmap(w, h) == [width |-> w, height |-> h, rects |-> <<>>, cell_x0 |-> 0, cell_y0 |-> 0]

\* Bitmap::draw_rect_filled
draw_rect_filled(bm, x, y, w, h, color) ==
    [bm EXCEPT !.rects = Append(@, Rect(x, y, w, h, color))]

\* Bitmap::draw_rect_filled_safely: the rectangle clipped to the bitmap.
draw_rect_filled_safely(bm, x, y, w, h, color) ==
    LET x0 == Max2(x, 0)
        y0 == Max2(y, 0)
        x1 == Min2(x + w, bm.width)
        y1 == Min2(y + h, bm.height)
    IN  IF x1 > x0 /\ y1 > y0
        THEN draw_rect_filled(bm, x0, y0, x1 - x0, y1 - y0, color)
        ELSE bm

\* A loop of draw_rect_filled calls, given as the rectangles in loop order.
DrawAll(bm, rects) == [bm EXCEPT !.rects = @ \o rects]

\* Bitmap::extend: the content moves by (left, top).
extend(bm, left, top, right, bottom) ==
    [width   |-> bm.width + left + right,
     height  |-> bm.height + top + bottom,
     rects   |-> [i \in 1..Len(bm.rects) |->
                     [bm.rects[i] EXCEPT !.x = @ + left, !.y = @ + top]],
     cell_x0 |-> bm.cell_x0 + left,
     cell_y0 |-> bm.cell_y0 + top]

draw_origin_line_vertical(bm, pos_x) ==
    draw_rect_filled_safely(
        draw_rect_filled_safely(bm, pos_x - 2, 0, 4, bm.height, Black),
        pos_x - 1, 0, 2, bm.height, White)

draw_origin_line_horizontal(bm, pos_y) ==
    draw_rect_filled_safely(
        draw_rect_filled_safely(bm, 0, pos_y - 2, bm.width, 4, Black),
        0, pos_y - 1, bm.width, 2, White)

\* The colour the drawn rectangles leave at pixel (px, py): that of the last
\* rectangle covering it, "none" where only the cell content shows.
Covering(bm, px, py) ==
    {i \in 1..Len(bm.rects) :
        /\ bm.rects[i].x <= px /\ px < bm.rects[i].x + bm.rects[i].w
        /\ bm.rects[i].y <= py /\ py < bm.rects[i].y + bm.rects[i].h}

OverlayAt(bm, px, py) ==
    IF Covering(bm, px, py) = {} THEN "none"
    ELSE bm.rects[SetMax(Covering(bm, px, py))].color

----------------------------------------------------------------------------
(* place_grid_labels_in_pattern *)

\* One draw_text_aligned_in_point call: the edge, the grid line and the text.
LabelDraw(edge, bitmap_coord, text) == [edge |-> edge, coord |-> bitmap_coord, text |-> text]

\* LabelCoords that labels the first and the last grid line whenever they
\* are not multiples of 10.
LabelCoordsAnyPartialBlock(logical_first_coordinate, grid_size) ==
    LET logical_last_coordinate == logical_first_coordinate + grid_size
        all == [i \in 1..(grid_size + 1) |->
                   <<i - 1, logical_first_coordinate + (i - 1)>>]
        tens == SelectSeq(all, LAMBDA c : RustRem(c[2], 10) = 0)
    IN  tens
        \o (IF RustRem(logical_first_coordinate, 10) /= 0
            THEN <<<<0, logical_first_coordinate>>>> ELSE <<>>)
        \o (IF RustRem(logical_last_coordinate, 10) /= 0
            THEN <<<<grid_size, logical_last_coordinate>>>> ELSE <<>>)

\* The (bitmap_coord, logical_coord) pairs of one axis, in push order.
LabelCoords(logical_first_coordinate, grid_size) ==
    LET logical_last_coordinate == logical_first_coordinate + grid_size
        all == [i \in 1..(grid_size + 1) |->
                   <<i - 1, logical_first_coordinate + (i - 1)>>]
        tens == SelectSeq(all, LAMBDA c : RustRem(c[2], 10) = 0)
        pixel_count_in_first_block ==
            Abs(ceil_to_multiple_of_target_i32(logical_first_coordinate, 10)
                - logical_first_coordinate)
        pixel_count_in_last_block ==
            Abs(floor_to_multiple_of_target_i32(logical_last_coordinate, 10)
                - logical_last_coordinate)
    IN  tens
        \o (IF pixel_count_in_first_block > 3
            THEN <<<<0, logical_first_coordinate>>>> ELSE <<>>)
        \o (IF pixel_count_in_last_block > 3
            THEN <<<<grid_size, logical_last_coordinate>>>> ELSE <<>>)

\* DrawLabels printing the logical coordinate as it is on both axes.
RECURSIVE DrawLabelsUnsigned(_, _, _, _, _)
DrawLabelsUnsigned(coords, i, edge_a, edge_b, negate) ==
    IF i > Len(coords) THEN <<>>
    ELSE LET text == I32ToString(coords[i][2])
         IN  <<LabelDraw(edge_a, coords[i][1], text), LabelDraw(edge_b, coords[i][1], text)>>
             \o DrawLabelsUnsigned(coords, i + 1, edge_a, edge_b, negate)

RECURSIVE DrawLabels(_, _, _, _, _)
DrawLabels(coords, i, edge_a, edge_b, negate) ==
    IF i > Len(coords) THEN <<>>
    ELSE LET text == I32ToString(IF negate THEN -coords[i][2] ELSE coords[i][2])
         IN  <<LabelDraw(edge_a, coords[i][1], text), LabelDraw(edge_b, coords[i][1], text)>>
             \o DrawLabels(coords, i + 1, edge_a, edge_b, negate)

\* The result keeps the padding in units of font.horizontal_advance_max.
place_grid_labels_in_pattern(scaled_bitmap, grid_cell_size, logical_first_coordinate_x, logical_first_coordinate_y) ==
    LET grid_width  == RustDiv(scaled_bitmap.width, grid_cell_size)
        grid_height == RustDiv(scaled_bitmap.height, grid_cell_size)
        logical_last_coordinate_x == logical_first_coordinate_x + grid_width
        logical_last_coordinate_y == logical_first_coordinate_y + grid_height
        max_text_charcount ==
            SetMax({Len(I32ToString(c)) :
                       c \in {logical_first_coordinate_x, logical_first_coordinate_y,
                              logical_last_coordinate_x, logical_last_coordinate_y}})
        label_coords_x == LabelCoords(logical_first_coordinate_x, grid_width)
        label_coords_y == LabelCoords(logical_first_coordinate_y, grid_height)
    IN  [label_padding_chars |-> max_text_charcount + 4,
         labels |-> DrawLabels(label_coords_x, 1, "top", "bottom", FALSE)
                    \o DrawLabels(label_coords_y, 1, "left", "right", TRUE)]

----------------------------------------------------------------------------
(* create_cross_stitch_pattern *)

\* PatternFlags with the graphic symbols for every variant.
PatternFlagsGraphicOnly(pattern_type) ==
    CASE pattern_type = "BlackAndWhite" ->
            [colorize |-> FALSE, add_symbol |-> TRUE, use_alphanum |-> FALSE]
      [] pattern_type = "Colorized" ->
            [colorize |-> TRUE, add_symbol |-> TRUE, use_alphanum |-> FALSE]
      [] pattern_type = "ColorizedNoSymbols" ->
            [colorize |-> TRUE, add_symbol |-> FALSE, use_alphanum |-> FALSE]
      [] pattern_type = "PaintByNumbers" ->
            [colorize |-> FALSE, add_symbol |-> TRUE, use_alphanum |-> FALSE]

\* (colorize, add_symbol, use_alphanum) of a PatternType
PatternFlags(pattern_type) ==
    CASE pattern_type = "BlackAndWhite" ->
            [colorize |-> FALSE, add_symbol |-> TRUE, use_alphanum |-> FALSE]
      [] pattern_type = "Colorized" ->
            [colorize |-> TRUE, add_symbol |-> TRUE, use_alphanum |-> FALSE]
      [] pattern_type = "ColorizedNoSymbols" ->
            [colorize |-> TRUE, add_symbol |-> FALSE, use_alphanum |-> FALSE]
      [] pattern_type = "PaintByNumbers" ->
            [colorize |-> FALSE, add_symbol |-> TRUE, use_alphanum |-> TRUE]

\* color_mappings.get(&color).unwrap() on a missing key panics.
UnwrapFailed == Symbol("panic", 0, "called Option::unwrap() on a None value")

\* PatternCell filling with the pixel colour whatever its alpha.
PatternCellFillsTransparent(bitmap, mappings, x, y, flags) ==
    LET color == BitmapGet(bitmap, x, y)
    IN  [fill   |-> IF flags.colorize THEN color ELSE White,
         symbol |-> IF flags.add_symbol /\ color.a /= 0
                    THEN IF IndexOfKey(mappings, color) = 0 THEN UnwrapFailed
                         ELSE IF flags.use_alphanum
                              THEN MapGet(mappings, color).symbol_alphanum
                              ELSE MapGet(mappings, color).symbol
                    ELSE NoSymbol]

\* What the first loop draws for source pixel (x, y): the fill of its tile
\* and the symbol stamped on it (NoSymbol when none is stamped).
PatternCell(bitmap, mappings, x, y, flags) ==
    LET color == BitmapGet(bitmap, x, y)
    IN  [fill   |-> IF flags.colorize
                    THEN (IF color.a = 0 THEN White ELSE color)
                    ELSE White,
         symbol |-> IF flags.add_symbol /\ color.a /= 0
                    THEN IF IndexOfKey(mappings, color) = 0 THEN UnwrapFailed
                         ELSE IF flags.use_alphanum
                              THEN MapGet(mappings, color).symbol_alphanum
                              ELSE MapGet(mappings, color).symbol
                    ELSE NoSymbol]

\* AddThinGrid without the two closing lines.
AddThinGridOpen(bm, width, height) ==
    LET W == bm.width
        H == bm.height
        columns == [i \in 1..width |-> Rect(TILE_SIZE * (i - 1), 0, 1, H, COLOR_GRID_THIN)]
        rows == [i \in 1..height |-> Rect(0, TILE_SIZE * (i - 1), W, 1, COLOR_GRID_THIN)]
    IN  DrawAll(DrawAll(bm, columns), rows)

\* "Add 1x1 grid" and "Close 1x1 grid line on bottom-right bitmap border"
AddThinGrid(bm, width, height) ==
    LET W == bm.width
        H == bm.height
        columns == [i \in 1..width |-> Rect(TILE_SIZE * (i - 1), 0, 1, H, COLOR_GRID_THIN)]
        rows == [i \in 1..height |-> Rect(0, TILE_SIZE * (i - 1), W, 1, COLOR_GRID_THIN)]
    IN  draw_rect_filled(
            draw_rect_filled(DrawAll(DrawAll(bm, columns), rows),
                             W - 1, 0, 1, H, COLOR_GRID_THIN),
            0, H - 1, W, 1, COLOR_GRID_THIN)

\* AddThickGrid testing the bitmap coordinate instead of the logical one.
AddThickGridLocal(bm, width, height, logical_first_coordinate_x, logical_first_coordinate_y) ==
    LET W == bm.width
        H == bm.height
        xs == SelectSeq([i \in 1..width |-> i - 1], LAMBDA bitmap_x : RustRem(bitmap_x, 10) = 0)
        ys == SelectSeq([i \in 1..height |-> i - 1], LAMBDA bitmap_y : RustRem(bitmap_y, 10) = 0)
        columns == [i \in 1..Len(xs) |-> Rect(TILE_SIZE * xs[i], 0, 2, H, COLOR_GRID_THICK)]
        rows == [i \in 1..Len(ys) |-> Rect(0, TILE_SIZE * ys[i], W, 2, COLOR_GRID_THICK)]
        inner == DrawAll(DrawAll(bm, columns), rows)
        closed_x == IF RustRem(width, 10) = 0
                    THEN draw_rect_filled(inner, W - 2, 0, 2, H, COLOR_GRID_THICK)
                    ELSE inner
    IN  IF RustRem(height, 10) = 0
        THEN draw_rect_filled(closed_x, 0, H - 2, W, 2, COLOR_GRID_THICK)
        ELSE closed_x

\* AddThickGrid without the closing lines.
AddThickGridUnclosed(bm, width, height, logical_first_coordinate_x, logical_first_coordinate_y) ==
    LET xs == SelectSeq([i \in 1..width |-> i - 1],
                        LAMBDA bitmap_x : RustRem(logical_first_coordinate_x + bitmap_x, 10) = 0)
        ys == SelectSeq([i \in 1..height |-> i - 1],
                        LAMBDA bitmap_y : RustRem(logical_first_coordinate_y + bitmap_y, 10) = 0)
        columns == [i \in 1..Len(xs) |->
                       Rect(TILE_SIZE * xs[i], 0, 2, bm.height, COLOR_GRID_THICK)]
        rows == [i \in 1..Len(ys) |-> Rect(0, TILE_SIZE * ys[i], bm.width, 2, COLOR_GRID_THICK)]
    IN  DrawAll(DrawAll(bm, columns), rows)

\* "Add 10x10 grid" and "Close 10x10 grid line ... if necessary"
AddThickGrid(bm, width, height, logical_first_coordinate_x, logical_first_coordinate_y) ==
    LET W == bm.width
        H == bm.height
        xs == SelectSeq([i \in 1..width |-> i - 1],
                        LAMBDA bitmap_x : RustRem(logical_first_coordinate_x + bitmap_x, 10) = 0)
        ys == SelectSeq([i \in 1..height |-> i - 1],
                        LAMBDA bitmap_y : RustRem(logical_first_coordinate_y + bitmap_y, 10) = 0)
        columns == [i \in 1..Len(xs) |-> Rect(TILE_SIZE * xs[i], 0, 2, H, COLOR_GRID_THICK)]
        rows == [i \in 1..Len(ys) |-> Rect(0, TILE_SIZE * ys[i], W, 2, COLOR_GRID_THICK)]
        inner == DrawAll(DrawAll(bm, columns), rows)
        closed_x == IF RustRem(logical_first_coordinate_x + width, 10) = 0
                    THEN draw_rect_filled(inner, W - 2, 0, 2, H, COLOR_GRID_THICK)
                    ELSE inner
    IN  IF RustRem(logical_first_coordinate_y + height, 10) = 0
        THEN draw_rect_filled(closed_x, 0, H - 2, W, 2, COLOR_GRID_THICK)
        ELSE closed_x

\* "Add origin grid" without the bars on the edges of the bitmap.
AddOriginGridInterior(bm, width, height, logical_first_coordinate_x, logical_first_coordinate_y) ==
    LET origin_bitmap_coord_x == -logical_first_coordinate_x
        origin_bitmap_coord_y == -logical_first_coordinate_y
        inner_x == IF 0 < origin_bitmap_coord_x /\ origin_bitmap_coord_x < width
                   THEN draw_origin_line_vertical(bm, TILE_SIZE * origin_bitmap_coord_x)
                   ELSE bm
    IN  IF 0 < origin_bitmap_coord_y /\ origin_bitmap_coord_y < height
        THEN draw_origin_line_horizontal(inner_x, TILE_SIZE * origin_bitmap_coord_y)
        ELSE inner_x

\* "Add origin grid"
AddOriginGrid(bm, width, height, logical_first_coordinate_x, logical_first_coordinate_y) ==
    LET scaled_bitmap_width == bm.width
        scaled_bitmap_height == bm.height
        origin_bitmap_coord_x == -logical_first_coordinate_x
        origin_bitmap_coord_y == -logical_first_coordinate_y
        inner_x == IF 0 < origin_bitmap_coord_x /\ origin_bitmap_coord_x < width
                   THEN draw_origin_line_vertical(bm, TILE_SIZE * origin_bitmap_coord_x)
                   ELSE bm
        inner_y == IF 0 < origin_bitmap_coord_y /\ origin_bitmap_coord_y < height
                   THEN draw_origin_line_horizontal(inner_x, TILE_SIZE * origin_bitmap_coord_y)
                   ELSE inner_x
        needs_grid_left == logical_first_coordinate_x = 0
        needs_grid_top == logical_first_coordinate_y = 0
        needs_grid_right == logical_first_coordinate_x + width = 0
        needs_grid_bottom == logical_first_coordinate_y + height = 0
        extended == extend(inner_y,
                           IF needs_grid_left THEN 2 ELSE 0,
                           IF needs_grid_top THEN 2 ELSE 0,
                           IF needs_grid_right THEN 2 ELSE 0,
                           IF needs_grid_bottom THEN 2 ELSE 0)
        left == IF needs_grid_left THEN draw_origin_line_vertical(extended, 2) ELSE extended
        right == IF needs_grid_right
                 THEN draw_origin_line_vertical(left, scaled_bitmap_width) ELSE left
        top == IF needs_grid_top THEN draw_origin_line_horizontal(right, 2) ELSE right
    IN  IF needs_grid_bottom
        THEN draw_origin_line_horizontal(top, scaled_bitmap_height) ELSE top

NoLabels == [label_padding_chars |-> 0, labels |-> <<>>]

\* The final_bitmap that create_cross_stitch_pattern writes.  segment_index
\* is 0 for None.
create_cross_stitch_pattern(bitmap, mappings, segment_index, logical_first_coordinate_x, logical_first_coordinate_y, pattern_type, add_thick_ten_grid, add_origin_grid_bars, symbol_mask_color) ==
    LET flags == PatternFlags(pattern_type)
        cells == [c \in (0..(bitmap.width - 1)) \X (0..(bitmap.height - 1)) |->
                     PatternCell(bitmap, mappings, c[1], c[2], flags)]
        thin == AddThinGrid(ScaledBitmap(TILE_SIZE * bitmap.width, TILE_SIZE * bitmap.height),
                            bitmap.width, bitmap.height)
        thick == IF add_thick_ten_grid
                 THEN AddThickGrid(thin, bitmap.width, bitmap.height,
                                   logical_first_coordinate_x, logical_first_coordinate_y)
                 ELSE thin
        scaled_bitmap ==
            IF add_origin_grid_bars
            THEN AddOriginGrid(thick, bitmap.width, bitmap.height,
                               logical_first_coordinate_x, logical_first_coordinate_y)
            ELSE thick
        labelled == IF add_thick_ten_grid
                    THEN place_grid_labels_in_pattern(scaled_bitmap, TILE_SIZE,
                             logical_first_coordinate_x, logical_first_coordinate_y)
                    ELSE NoLabels
    IN  [kind |-> "pattern",
         grid_width |-> bitmap.width,
         grid_height |-> bitmap.height,
         cells |-> cells,
         symbol_mask_color |-> symbol_mask_color,
         scaled_bitmap |-> scaled_bitmap,
         label_padding_chars |-> labelled.label_padding_chars,
         labels |-> labelled.labels,
         banner |-> IF segment_index /= 0
                    THEN "\n Pattern Part " \o I32ToString(segment_index) \o " \n"
                    ELSE ""]

----------------------------------------------------------------------------
(* Legend *)

\* slice::chunks(n): consecutive chunks of n elements, the last may be shorter.
Chunks(seq, n) ==
    [k \in 1..CeilDiv(Len(seq), n) |->
        SubSeq(seq, (k - 1) * n + 1, Min2(k * n, Len(seq)))]

\* StitchCountFrom adding one per entry instead of the entry's count.
RECURSIVE StitchCountEntries(_, _, _)
StitchCountEntries(mappings, i, acc) ==
    IF i > Len(mappings) THEN acc
    ELSE StitchCountEntries(mappings, i + 1, acc + 1)

RECURSIVE StitchCountFrom(_, _, _)
StitchCountFrom(mappings, i, acc) ==
    IF i > Len(mappings) THEN acc
    ELSE StitchCountFrom(mappings, i + 1, acc + mappings[i].count)

\* create_legend_entry stamping the alphanumeric symbol.
create_legend_entry_alphanum(info) ==
    [color |-> info.color,
     symbol |-> info.symbol_alphanum,
     text |-> " " \o I32ToString(info.count) \o " stitches      "]

create_legend_entry(info) ==
    [color |-> info.color,
     symbol |-> info.symbol,
     text |-> " " \o I32ToString(info.count) \o " stitches      "]

create_legend_block(infos) == [i \in 1..Len(infos) |-> create_legend_entry(infos[i])]

NoPageLayout == [num_rows |-> 0, num_columns |-> 0, page_count |-> 0, pages |-> <<>>]

\* create_pattern_page_layout drawing every box in the first row.
create_pattern_page_layout_one_row(layout_indices) ==
    [num_rows |-> 1 + SetMax({layout_indices[i].y : i \in 1..Len(layout_indices)}),
     num_columns |-> 1 + SetMax({layout_indices[i].x : i \in 1..Len(layout_indices)}),
     page_count |-> Len(layout_indices),
     pages |-> [i \in 1..Len(layout_indices) |->
                   [pos_index |-> [x |-> layout_indices[i].x, y |-> 0],
                    text |-> I32ToString((i - 1) + 1)]]]

create_pattern_page_layout(layout_indices) ==
    [num_rows |-> 1 + SetMax({layout_indices[i].y : i \in 1..Len(layout_indices)}),
     num_columns |-> 1 + SetMax({layout_indices[i].x : i \in 1..Len(layout_indices)}),
     page_count |-> Len(layout_indices),
     pages |-> [i \in 1..Len(layout_indices) |->
                   [pos_index |-> layout_indices[i], text |-> I32ToString((i - 1) + 1)]]]

\* create_cross_stitch_legend with rows of four blocks.
create_cross_stitch_legend_four_columns(image_dimensions, mappings, segment_layout_indices) ==
    LET chunks == Chunks(mappings, LEGEND_BLOCK_ENTRY_COUNT)
        block_bitmaps == [k \in 1..Len(chunks) |-> create_legend_block(chunks[k])]
    IN  [kind |-> "legend",
         stats |-> "",
         block_rows |-> Chunks(block_bitmaps, 4),
         page_layout |-> NoPageLayout]

create_cross_stitch_legend(image_dimensions, mappings, segment_layout_indices) ==
    LET color_count == Len(mappings)
        stitch_count == StitchCountFrom(mappings, 1, 0)
        block_bitmaps == LET chunks == Chunks(mappings, LEGEND_BLOCK_ENTRY_COUNT)
                         IN  [k \in 1..Len(chunks) |-> create_legend_block(chunks[k])]
        num_columns == Max2(Len(block_bitmaps), 4)
    IN  [kind |-> "legend",
         stats |-> "Size:     " \o I32ToString(image_dimensions.x) \o "x"
                   \o I32ToString(image_dimensions.y)
                   \o "\n\nColors:   " \o I32ToString(color_count)
                   \o "\n\nStitches: " \o I32ToString(stitch_count) \o "\n\n\n",
         block_rows |-> Chunks(block_bitmaps, num_columns),
         page_layout |-> IF Len(segment_layout_indices) > 1
                         THEN create_pattern_page_layout(segment_layout_indices)
                         ELSE NoPageLayout]

----------------------------------------------------------------------------
(* Stitched preview *)

\* Bitmap::extended with the same padding on all four sides.
BitmapExtended(bitmap, padding, fill) ==
    LET w == bitmap.width + 2 * padding
        h == bitmap.height + 2 * padding
    IN  Bitmap(w, h,
               [i \in 1..(w * h) |->
                   LET x == ((i - 1) % w) - padding
                       y == ((i - 1) \div w) - padding
                   IN  IF 0 <= x /\ x < bitmap.width /\ 0 <= y /\ y < bitmap.height
                       THEN BitmapGet(bitmap, x, y)
                       ELSE fill])

\* PreviewStitches with the random call made for every pixel of the bitmap.
PreviewStitchesDrawPerPixel(bitmap, mappings) ==
    LET stitched == SelectSeq([i \in 1..Len(bitmap.data) |-> i],
                              LAMBDA i : bitmap.data[i].a /= 0)
    IN  [k \in 1..Len(stitched) |->
            LET color == bitmap.data[stitched[k]]
            IN  [x |-> (stitched[k] - 1) % bitmap.width,
                 y |-> (stitched[k] - 1) \div bitmap.width,
                 color |-> color,
                 found |-> IndexOfKey(mappings, color) /= 0,
                 draw |-> stitched[k]]]

\* The stitches loop: one entry per pixel with alpha /= 0, in row-major
\* order; `draw` is the ordinal of its random.u32_bounded_exclusive call.
PreviewStitches(bitmap, mappings) ==
    LET stitched == SelectSeq([i \in 1..Len(bitmap.data) |-> i],
                              LAMBDA i : bitmap.data[i].a /= 0)
    IN  [k \in 1..Len(stitched) |->
            LET color == bitmap.data[stitched[k]]
            IN  [x |-> (stitched[k] - 1) % bitmap.width,
                 y |-> (stitched[k] - 1) \div bitmap.width,
                 color |-> color,
                 found |-> IndexOfKey(mappings, color) /= 0,
                 draw |-> k]]

create_cross_stitch_pattern_preview(bitmap, mappings) ==
    LET extended == BitmapExtended(bitmap, 10, Transparent)
    IN  [kind |-> "preview",
         width |-> extended.width,
         height |-> extended.height,
         seed |-> 1234,
         stitches |-> PreviewStitches(extended, mappings)]

----------------------------------------------------------------------------
(* Paths.  An input file is its path (name, extension) together with the   *)
(* bitmap that decoding it yields.                                         *)

InputFile(name, extension, bitmap) == [name |-> name, extension |-> extension, bitmap |-> bitmap]

PathString(file) == file.name \o "." \o file.extension

path_to_filename_without_extension(file) == file.name

\* get_image_output_dir, relative to the executable dir
get_image_output_dir(file, output_dir_suffix) ==
    IF output_dir_suffix = ""
    THEN path_to_filename_without_extension(file)
    ELSE path_to_filename_without_extension(file) \o "_" \o output_dir_suffix

\* get_image_output_filepath + tail
OutputPath(file, output_dir_suffix, tail) ==
    [dir |-> get_image_output_dir(file, output_dir_suffix),
     name |-> path_to_filename_without_extension(file) \o tail]

\* Bitmap::write_to_png_file
WriteFile(fs, path, content) ==
    IF path \in DOMAIN fs
    THEN [fs EXCEPT ![path] = [content |-> content, writes |-> @.writes + 1]]
    ELSE [p \in DOMAIN fs \cup {path} |->
            IF p = path THEN [content |-> content, writes |-> 1] ELSE fs[p]]

\* create_image_output_dir (release build): remove_dir_all, then create_dir_all
create_image_output_dir(fs, file, output_dir_suffix) ==
    [p \in {q \in DOMAIN fs : q.dir /= get_image_output_dir(file, output_dir_suffix)} |-> fs[p]]

----------------------------------------------------------------------------
(* The tasks spawned into the rayon scopes *)

Task(kind, dir, suffix, segment, lx, ly, pbn, origin, pattern_type, thick, mask) ==
    [kind |-> kind, output_dir_suffix |-> dir, output_filename_suffix |-> suffix,
     segment_index |-> segment,
     logical_first_coordinate_x |-> lx, logical_first_coordinate_y |-> ly,
     create_paint_by_number_set |-> pbn, add_origin_grid_bars |-> origin,
     pattern_type |-> pattern_type, add_thick_ten_grid |-> thick,
     symbol_mask_color |-> mask]

NoTask == Task("none", "", "", 0, 0, 0, FALSE, FALSE, "", FALSE, Transparent)

DirTask(kind) == Task(kind, "", "", 0, 0, 0, FALSE, FALSE, "", FALSE, Transparent)

LegendTask(dir) == Task("legend", dir, "", 0, 0, 0, FALSE, FALSE, "", FALSE, Transparent)

PreviewTask(dir, suffix) ==
    Task("preview", dir, suffix, 0, 0, 0, FALSE, FALSE, "", FALSE, Transparent)

PatternSetTask(dir, suffix, segment, lx, ly, pbn, origin) ==
    Task("pattern_set", dir, suffix, segment, lx, ly, pbn, origin, "", FALSE, Transparent)

\* PatternTask naming every file of a pattern set after the complete set.
PatternTaskUnnumbered(set, prefix, pattern_type, thick, origin, mask) ==
    Task("pattern", set.output_dir_suffix, prefix \o "complete",
         set.segment_index, set.logical_first_coordinate_x, set.logical_first_coordinate_y,
         FALSE, origin, pattern_type, thick, mask)

PatternTask(set, prefix, pattern_type, thick, origin, mask) ==
    Task("pattern", set.output_dir_suffix, prefix \o set.output_filename_suffix,
         set.segment_index, set.logical_first_coordinate_x, set.logical_first_coordinate_y,
         FALSE, origin, pattern_type, thick, mask)

\* The three spawns of main's rayon::scope
MainTasks ==
    {DirTask("create_patterns_dir"), DirTask("create_patterns_dir_centered"),
     DirTask("create_preview_dir")}

\* Segments with the segment width and height exchanged.
SegmentsTransposed(bitmap) == to_segments(bitmap, SPLIT_SEGMENT_HEIGHT, SPLIT_SEGMENT_WIDTH)

Segments(bitmap) == to_segments(bitmap, SPLIT_SEGMENT_WIDTH, SPLIT_SEGMENT_HEIGHT)

\* The bitmap a pattern set renders: the image (segment_index None) or a segment.
SetBitmap(bitmap, segment_index) ==
    IF segment_index = 0 THEN bitmap ELSE Segments(bitmap).images[segment_index]

\* create_patterns_dir with `segment_images.len() >= 1` for the segment sets.
create_patterns_dir_always_segments(bitmap) ==
    LET segment_coordinates == Segments(bitmap).coordinates
    IN  {LegendTask(""), PatternSetTask("", "complete", 0, 0, 0, TRUE, FALSE)}
        \cup {PatternSetTask("", "segment_" \o I32ToString(i), i,
                             SPLIT_SEGMENT_WIDTH * segment_coordinates[i].x,
                             SPLIT_SEGMENT_HEIGHT * segment_coordinates[i].y,
                             FALSE, FALSE) : i \in 1..Len(segment_coordinates)}

\* What create_patterns_dir spawns
create_patterns_dir(bitmap) ==
    LET output_dir_suffix == ""
        segment_coordinates == Segments(bitmap).coordinates
    IN  {LegendTask(output_dir_suffix),
         PatternSetTask(output_dir_suffix, "complete", 0, 0, 0, TRUE, FALSE)}
        \cup (IF Len(segment_coordinates) > 1
              THEN {PatternSetTask(output_dir_suffix, "segment_" \o I32ToString(i), i,
                                   SPLIT_SEGMENT_WIDTH * segment_coordinates[i].x,
                                   SPLIT_SEGMENT_HEIGHT * segment_coordinates[i].y,
                                   FALSE, FALSE) : i \in 1..Len(segment_coordinates)}
              ELSE {})

\* create_patterns_dir_centered with the segments' coordinates counted from
\* the segment's own corner.
create_patterns_dir_centered_local(bitmap) ==
    LET output_dir_suffix == "centered"
        image_center_x == make_even_upwards(bitmap.width) \div 2
        image_center_y == make_even_upwards(bitmap.height) \div 2
        segment_coordinates == Segments(bitmap).coordinates
    IN  {LegendTask(output_dir_suffix),
         PatternSetTask(output_dir_suffix, "complete", 0,
                        -image_center_x, -image_center_y, TRUE, TRUE)}
        \cup (IF Len(segment_coordinates) > 1
              THEN {PatternSetTask(output_dir_suffix, "segment_" \o I32ToString(i), i,
                                   -image_center_x, -image_center_y,
                                   FALSE, TRUE) : i \in 1..Len(segment_coordinates)}
              ELSE {})

\* create_patterns_dir_centered naming the files of a segment after its
\* 0-based index.
create_patterns_dir_centered_zero_based(bitmap) ==
    LET image_center_x == make_even_upwards(bitmap.width) \div 2
        image_center_y == make_even_upwards(bitmap.height) \div 2
        segment_coordinates == Segments(bitmap).coordinates
    IN  {LegendTask("centered"),
         PatternSetTask("centered", "complete", 0,
                        -image_center_x, -image_center_y, TRUE, TRUE)}
        \cup (IF Len(segment_coordinates) > 1
              THEN {PatternSetTask("centered", "segment_" \o I32ToString(i - 1), i,
                        SPLIT_SEGMENT_WIDTH * segment_coordinates[i].x - image_center_x,
                        SPLIT_SEGMENT_HEIGHT * segment_coordinates[i].y - image_center_y,
                        FALSE, TRUE) : i \in 1..Len(segment_coordinates)}
              ELSE {})

\* What create_patterns_dir_centered spawns
create_patterns_dir_centered(bitmap) ==
    LET output_dir_suffix == "centered"
        image_center_x == make_even_upwards(bitmap.width) \div 2
        image_center_y == make_even_upwards(bitmap.height) \div 2
        segment_coordinates == Segments(bitmap).coordinates
    IN  {LegendTask(output_dir_suffix),
         PatternSetTask(output_dir_suffix, "complete", 0,
                        -image_center_x, -image_center_y, TRUE, TRUE)}
        \cup (IF Len(segment_coordinates) > 1
              THEN {PatternSetTask(output_dir_suffix, "segment_" \o I32ToString(i), i,
                                   SPLIT_SEGMENT_WIDTH * segment_coordinates[i].x - image_center_x,
                                   SPLIT_SEGMENT_HEIGHT * segment_coordinates[i].y - image_center_y,
                                   FALSE, TRUE) : i \in 1..Len(segment_coordinates)}
              ELSE {})

\* What create_preview_dir spawns
create_preview_dir == {PreviewTask("preview", "complete")}

\* create_cross_stitch_pattern_set that ignores create_paint_by_number_set.
create_cross_stitch_pattern_set_always_paint(set) ==
    {PatternTask(set, "cross_stitch_colorized_", "Colorized", TRUE,
                 set.add_origin_grid_bars, White),
     PatternTask(set, "cross_stitch_", "BlackAndWhite", TRUE,
                 set.add_origin_grid_bars, White),
     PatternTask(set, "cross_stitch_colorized_no_symbols_", "ColorizedNoSymbols", TRUE,
                 set.add_origin_grid_bars, White),
     PatternTask(set, "paint_by_numbers_", "PaintByNumbers", FALSE, FALSE, Transparent)}

\* What create_cross_stitch_pattern_set spawns
create_cross_stitch_pattern_set(set) ==
    {PatternTask(set, "cross_stitch_colorized_", "Colorized", TRUE,
                 set.add_origin_grid_bars, White),
     PatternTask(set, "cross_stitch_", "BlackAndWhite", TRUE,
                 set.add_origin_grid_bars, White),
     PatternTask(set, "cross_stitch_colorized_no_symbols_", "ColorizedNoSymbols", TRUE,
                 set.add_origin_grid_bars, White)}
    \cup (IF set.create_paint_by_number_set
          THEN {PatternTask(set, "paint_by_numbers_", "PaintByNumbers", FALSE, FALSE,
                            Transparent)}
          ELSE {})

\* The final_bitmap of pattern task t
RenderTask(bitmap, mappings, t) ==
    create_cross_stitch_pattern(SetBitmap(bitmap, t.segment_index), mappings,
        t.segment_index, t.logical_first_coordinate_x, t.logical_first_coordinate_y,
        t.pattern_type, t.add_thick_ten_grid, t.add_origin_grid_bars, t.symbol_mask_color)

\* The panic of the first loop of create_cross_stitch_pattern: the failed
\* assert of the first blit_symbol call, in loop order, that has one.
PatternPanic(bitmap, mappings, t) ==
    LET segment == SetBitmap(bitmap, t.segment_index)
        flags == PatternFlags(t.pattern_type)
        assert_at(k) ==
            LET x == k % segment.width
                y == k \div segment.width
                cell == PatternCell(segment, mappings, x, y, flags)
            IN  IF cell.symbol = NoSymbol THEN ""
                ELSE blit_symbol_assert(cell.symbol, TILE_SIZE * segment.width,
                                        TILE_SIZE * segment.height,
                                        TILE_SIZE * x, TILE_SIZE * y)
        failing == {k \in 0..(segment.width * segment.height - 1) : assert_at(k) /= ""}
    IN  IF failing = {} THEN ""
        ELSE assert_at(CHOOSE k \in failing : \A other \in failing : k <= other)

\* The panic of create_legend_entry: blit_symbol onto the right half of a
\* bitmap of two tiles.
LegendPanic(mappings) ==
    LET assert_at(i) == blit_symbol_assert(mappings[i].symbol, 2 * TILE_SIZE, TILE_SIZE,
                                           TILE_SIZE, 0)
        failing == {i \in 1..Len(mappings) : assert_at(i) /= ""}
    IN  IF failing = {} THEN ""
        ELSE assert_at(CHOOSE i \in failing : \A other \in failing : i <= other)

\* The panic message of job t, "" when it runs to its write.
JobPanic(bitmap, mappings, t) ==
    CASE t.kind = "pattern" -> PatternPanic(bitmap, mappings, t)
      [] t.kind = "legend" -> LegendPanic(mappings)
      [] OTHER -> ""

\* The endings of the names of the files job t writes.
JobTails(t) ==
    IF t.kind = "preview" THEN {"_background.png", "_stitches.png", ".png"} ELSE {".png"}

\* get_image_output_filepath of job t, with the ending `tail`.
JobPath(file, t, tail) ==
    OutputPath(file, t.output_dir_suffix,
               (IF t.kind = "legend" THEN "_legend" ELSE "_" \o t.output_filename_suffix)
                   \o tail)

\* The file system after job t of the image `bitmap` read from `file` has
\* rendered and written its file(s): create_cross_stitch_pattern,
\* create_cross_stitch_legend or create_cross_stitch_pattern_preview.
JobWrites(fs, file, bitmap, mappings, t) ==
    CASE t.kind = "pattern" ->
            WriteFile(fs, JobPath(file, t, ".png"), RenderTask(bitmap, mappings, t))
      [] t.kind = "legend" ->
            WriteFile(fs, JobPath(file, t, ".png"),
                      create_cross_stitch_legend(
                          [x |-> bitmap.width, y |-> bitmap.height], mappings,
                          Segments(bitmap).coordinates))
      [] t.kind = "preview" ->
            LET preview == create_cross_stitch_pattern_preview(bitmap, mappings)
                path(tail) == JobPath(file, t, tail)
            IN  WriteFile(
                    WriteFile(
                        WriteFile(fs, path("_background.png"),
                                  [preview EXCEPT !.kind = "preview_background"]),
                        path("_stitches.png"),
                        [preview EXCEPT !.kind = "preview_stitches"]),
                    path(".png"), preview)

----------------------------------------------------------------------------
(* Inputs *)

\* Bounds of the model
SmallPool == 2
LargePool == 40
MaxPixels == 3
MaxSide == 21

Red == PixelRGBA(255, 0, 0, 255)
RedHalf == PixelRGBA(255, 0, 0, 128)
Green == PixelRGBA(0, 255, 0, 255)
Blue == PixelRGBA(0, 0, 255, 255)
Gray == PixelRGBA(128, 128, 128, 255)
TransparentRed == PixelRGBA(255, 0, 0, 0)

\* The k-th of 54 pairwise different colours with alpha /= 0 (k >= 0).
Channel(i) == IF i = 0 THEN 0 ELSE IF i = 1 THEN 128 ELSE 255
RampColor(k) ==
    PixelRGBA(Channel(k % 3), Channel((k \div 3) % 3), Channel((k \div 9) % 3),
              IF k < 27 THEN 255 ELSE 128)

\* An n x 1 image of n different colours.
RampBitmap(n) == Bitmap(n, 1, [i \in 1..n |-> RampColor(i - 1)])

\* A w x h image repeating a fixed four-colour pattern.
CyclicBitmap(w, h) ==
    Bitmap(w, h, [i \in 1..(w * h) |-> <<Red, Transparent, Green, RedHalf>>[((i - 1) % 4) + 1]])

\* The graphic pools the resource directory may hold.
SymbolPools == {GraphicSymbols(SmallPool), GraphicSymbols(LargePool)}

\* Input files of a whole run
BlankFile == InputFile("blank", "png", Bitmap(2, 1, <<Transparent, TransparentRed>>))
RgbFile == InputFile("rgb", "png", Bitmap(3, 2, <<Red, Green, Blue, Blue, Red, Green>>))
AlphaFile == InputFile("alpha", "gif", Bitmap(2, 2, <<RedHalf, Red, Transparent, RedHalf>>))
Ramp35File == InputFile("ramp35", "png", RampBitmap(Len(ALPHANUM_CHARS)))
Ramp36File == InputFile("ramp36", "png", RampBitmap(Len(ALPHANUM_CHARS) + 1))
PhotoFile == InputFile("photo", "jpg", NoBitmap)

InputLists ==
    {<<f>> : f \in {BlankFile, RgbFile, AlphaFile, Ramp36File, PhotoFile}}
    \cup {<<AlphaFile, AlphaFile>>, <<BlankFile, RgbFile>>, <<Ramp36File, RgbFile>>}

\* Input files of the palette runs: every n x 1 image of at most MaxPixels
\* pixels over seven colours, and the two ramps.
PaletteColors == {Transparent, TransparentRed, Red, RedHalf, Green, Blue, Gray}

PaletteFiles ==
    {InputFile("img", "png", Bitmap(Len(data), 1, data)) :
        data \in UNION {[1..n -> PaletteColors] : n \in 1..MaxPixels}}

PaletteLists == {<<f>> : f \in PaletteFiles \cup {Ramp35File, Ramp36File}}

\* Input files of the render runs: rows and columns of 1..MaxSide cells,
\* a few two-dimensional images, and images of more than one segment, one
\* of them with two rows of two segments.
RenderFiles ==
    {InputFile("row", "png", CyclicBitmap(n, 1)) : n \in 1..MaxSide}
    \cup {InputFile("column", "png", CyclicBitmap(1, n)) : n \in 1..MaxSide}
    \cup {InputFile("small", "png", CyclicBitmap(3, 2)),
          InputFile("square", "png", CyclicBitmap(12, 11)),
          InputFile("wide", "png", CyclicBitmap(61, 1)),
          InputFile("wider", "png", CyclicBitmap(130, 1)),
          InputFile("tall", "png", CyclicBitmap(1, 90)),
          InputFile("pages", "png", CyclicBitmap(61, 81)),
          InputFile("halves", "png", CyclicBitmap(2 * SPLIT_SEGMENT_WIDTH, 1)),
          InputFile("stack", "png", CyclicBitmap(1, 2 * SPLIT_SEGMENT_HEIGHT)),
          InputFile("blank", "png", Bitmap(2, 2, <<Transparent, TransparentRed, Transparent, Transparent>>))}

----------------------------------------------------------------------------
(* The state machine of main *)

NoCanvas == [kind |-> "none"]
NoFiles == [p \in {} |-> 0]

MessageBox(caption, message, is_error) ==
    [caption |-> caption, message |-> message, is_error |-> is_error]

\* The panic hook: message box, then std::process::abort()
PanicMessage(message, location) ==
    MessageBox("Pixie Stitch Error", message \o "\n\nError occured at: " \o location, TRUE)

CurrentFile == image_filepaths[image_index]

Init ==
    /\ symbols \in SymbolPools
    /\ image_filepaths \in InputLists
    /\ image_index = 1
    /\ pc = "loop"
    /\ image = NoBitmap
    /\ color_mappings = <<>>
    /\ pending = {}
    /\ files = NoFiles
    /\ messages = <<>>
    /\ render_job = NoTask
    /\ canvas = NoCanvas

\* The head of the loop body: the three create_image_output_dir calls and
\* open_image.
OpenImage ==
    /\ pc = "loop"
    /\ image_index <= Len(image_filepaths)
    /\ files' = create_image_output_dir(
                    create_image_output_dir(
                        create_image_output_dir(files, CurrentFile, ""),
                        CurrentFile, "centered"),
                    CurrentFile, "preview")
    /\ IF CurrentFile.extension \in {"gif", "png"}
       THEN /\ image' = CurrentFile.bitmap
            /\ pc' = "mappings"
            /\ UNCHANGED messages
       ELSE /\ messages' = Append(messages,
                               PanicMessage("We only support GIF or PNG images", "open_image"))
            /\ pc' = "aborted"
            /\ UNCHANGED image
    /\ UNCHANGED <<symbols, image_filepaths, image_index, color_mappings, pending,
                   render_job, canvas>>

\* create_color_mappings_from_image, then the three spawns of main's scope.
CreateColorMappings ==
    /\ pc = "mappings"
    /\ LET result == create_color_mappings_from_image(
                         image, PathString(CurrentFile), symbols, create_alphanumeric_symbols)
       IN  IF result.panic /= ""
           THEN /\ messages' = Append(messages,
                                   PanicMessage(result.panic, "create_color_mappings_from_image"))
                /\ pc' = "aborted"
                /\ UNCHANGED <<color_mappings, pending>>
           ELSE /\ color_mappings' = result.value
                /\ pending' = MainTasks
                /\ pc' = "scope"
                /\ UNCHANGED messages
    /\ UNCHANGED <<symbols, image_filepaths, image_index, image, files, render_job, canvas>>

\* A task that only spawns further tasks into its scope.
Spawn(t, spawned) ==
    /\ pending' = (pending \ {t}) \cup spawned
    /\ UNCHANGED <<symbols, image_filepaths, image_index, pc, image, color_mappings,
                   files, messages, render_job, canvas>>

RunCreatePatternsDir ==
    /\ pc = "scope"
    /\ \E t \in pending :
          /\ t.kind = "create_patterns_dir"
          /\ Spawn(t, create_patterns_dir(image))

RunCreatePatternsDirCentered ==
    /\ pc = "scope"
    /\ \E t \in pending :
          /\ t.kind = "create_patterns_dir_centered"
          /\ Spawn(t, create_patterns_dir_centered(image))

RunCreatePreviewDir ==
    /\ pc = "scope"
    /\ \E t \in pending :
          /\ t.kind = "create_preview_dir"
          /\ Spawn(t, create_preview_dir)

RunCreateCrossStitchPatternSet ==
    /\ pc = "scope"
    /\ \E t \in pending :
          /\ t.kind = "pattern_set"
          /\ Spawn(t, create_cross_stitch_pattern_set(t))

\* A job that also resets the counts of the palette it was handed.
WriteResettingCounts(t, written) ==
    /\ pending' = pending \ {t}
    /\ files' = written
    /\ color_mappings' = [i \in DOMAIN color_mappings |->
                             [color_mappings[i] EXCEPT !.count = 0]]
    /\ UNCHANGED <<symbols, image_filepaths, image_index, pc, image,
                   messages, render_job, canvas>>

\* A job that renders and writes its file(s).
Write(t, written) ==
    /\ pending' = pending \ {t}
    /\ files' = written
    /\ UNCHANGED <<symbols, image_filepaths, image_index, pc, image, color_mappings,
                   messages, render_job, canvas>>

\* A job that panics: the panic hook runs on the job's thread and shows its
\* message box, which blocks the thread until the box is closed.
PanicInJob(t, message) ==
    /\ pending' = (pending \ {t}) \cup {[t EXCEPT !.kind = "panic_hook"]}
    /\ messages' = Append(messages, PanicMessage(message, "blit_symbol"))
    /\ UNCHANGED <<symbols, image_filepaths, image_index, pc, image, color_mappings,
                   files, render_job, canvas>>

\* A job runs to its write, or panics on the way.
RunJob(t) ==
    IF JobPanic(image, color_mappings, t) /= ""
    THEN PanicInJob(t, JobPanic(image, color_mappings, t))
    ELSE Write(t, JobWrites(files, CurrentFile, image, color_mappings, t))

RunCreateCrossStitchPattern ==
    /\ pc = "scope"
    /\ \E t \in pending :
          /\ t.kind = "pattern"
          /\ RunJob(t)

RunCreateCrossStitchLegend ==
    /\ pc = "scope"
    /\ \E t \in pending :
          /\ t.kind = "legend"
          /\ RunJob(t)

RunCreateCrossStitchPatternPreview ==
    /\ pc = "scope"
    /\ \E t \in pending :
          /\ t.kind = "preview"
          /\ RunJob(t)

\* The panic hook of a job after its message box is closed:
\* std::process::abort() ends the process with all its threads.
AbortInHook ==
    /\ pc = "scope"
    /\ \E t \in pending : t.kind = "panic_hook"
    /\ pc' = "aborted"
    /\ UNCHANGED <<symbols, image_filepaths, image_index, image, color_mappings, pending,
                   files, messages, render_job, canvas>>

\* A scope that returns while tasks spawned in it are still to run.
ScopeJoinEarly ==
    /\ pc = "scope"
    /\ pc' = "loop"
    /\ image_index' = image_index + 1
    /\ UNCHANGED <<symbols, image_filepaths, image, color_mappings, pending, files,
                   messages, render_job, canvas>>

\* The end of main's rayon::scope: every task spawned in it has finished.
ScopeJoin ==
    /\ pc = "scope"
    /\ pending = {}
    /\ pc' = "loop"
    /\ image_index' = image_index + 1
    /\ UNCHANGED <<symbols, image_filepaths, image, color_mappings, pending, files,
                   messages, render_job, canvas>>

\* After the loop: the final message box (release build).
Finish ==
    /\ pc = "loop"
    /\ image_index > Len(image_filepaths)
    /\ messages' = Append(messages,
                          MessageBox("Pixie Stitch", "Finished creating patterns. Enjoy!", FALSE))
    /\ pc' = "finished"
    /\ UNCHANGED <<symbols, image_filepaths, image_index, image, color_mappings, pending,
                   files, render_job, canvas>>

Next ==
    \/ OpenImage
    \/ CreateColorMappings
    \/ RunCreatePatternsDir
    \/ RunCreatePatternsDirCentered
    \/ RunCreatePreviewDir
    \/ RunCreateCrossStitchPatternSet
    \/ RunCreateCrossStitchPattern
    \/ RunCreateCrossStitchLegend
    \/ RunCreateCrossStitchPatternPreview
    \/ ScopeJoin
    \/ Finish

Spec == Init /\ [][Next]_vars

----------------------------------------------------------------------------
(* Palette runs: the same loop head over many small images, up to the      *)
(* point where the colour mappings exist.                                  *)

InitPalette ==
    /\ symbols \in SymbolPools
    /\ image_filepaths \in PaletteLists
    /\ image_index = 1
    /\ pc = "loop"
    /\ image = NoBitmap
    /\ color_mappings = <<>>
    /\ pending = {}
    /\ files = NoFiles
    /\ messages = <<>>
    /\ render_job = NoTask
    /\ canvas = NoCanvas

NextPalette == OpenImage \/ CreateColorMappings

SpecPalette == InitPalette /\ [][NextPalette]_vars

----------------------------------------------------------------------------
(* Render runs: one create_cross_stitch_pattern call, with the arguments   *)
(* of any pattern task that the fan-out of main creates for the image.     *)

PatternSetTasksOf(bitmap) ==
    {t \in create_patterns_dir(bitmap) \cup create_patterns_dir_centered(bitmap) :
        t.kind = "pattern_set"}

PatternTasksOf(bitmap) ==
    UNION {create_cross_stitch_pattern_set(set) : set \in PatternSetTasksOf(bitmap)}

InitRender ==
    /\ symbols = GraphicSymbols(LargePool)
    /\ image_filepaths \in {<<f>> : f \in RenderFiles}
    /\ image_index = 1
    /\ pc = "render"
    /\ image = image_filepaths[1].bitmap
    /\ color_mappings = create_color_mappings_from_image(
                            image, PathString(image_filepaths[1]), symbols,
                            create_alphanumeric_symbols).value
    /\ pending = {}
    /\ files = NoFiles
    /\ messages = <<>>
    /\ render_job \in PatternTasksOf(image)
    /\ canvas = NoCanvas

RenderPattern ==
    /\ pc = "render"
    /\ canvas' = RenderTask(image, color_mappings, render_job)
    /\ pc' = "rendered"
    /\ UNCHANGED <<symbols, image_filepaths, image_index, image, color_mappings, pending,
                   files, messages, render_job>>

NextRender == RenderPattern

SpecRender == InitRender /\ [][NextRender]_vars

----------------------------------------------------------------------------
(* Runs of main observed from the point where all but a few jobs of a      *)
(* first image of more than one segment have written their files.          *)

\* Bound of the model: the jobs of the first image still to run; they are
\* jobs of one output directory.
MaxPending == 2

\* The jobs that write files among the jobs main's scope fans out to.
LeafTasksOf(bitmap) ==
    LET spawned == create_patterns_dir(bitmap) \cup create_patterns_dir_centered(bitmap)
                       \cup create_preview_dir
    IN  {t \in spawned : t.kind \in {"legend", "preview"}}
        \cup UNION {create_cross_stitch_pattern_set(set) :
                       set \in {t \in spawned : t.kind = "pattern_set"}}

\* The file system after the jobs `tasks` have run, one after the other.
RECURSIVE RunAll(_, _, _, _, _)
RunAll(fs, file, bitmap, mappings, tasks) ==
    IF tasks = {} THEN fs
    ELSE LET t == CHOOSE t \in tasks : TRUE
         IN  RunAll(JobWrites(fs, file, bitmap, mappings, t), file, bitmap, mappings,
                    tasks \ {t})

WideFile == InputFile("wide", "png", CyclicBitmap(SPLIT_SEGMENT_WIDTH + 1, 1))
TallFile == InputFile("tall", "gif", CyclicBitmap(1, SPLIT_SEGMENT_HEIGHT + 1))

SegmentedLists == {<<WideFile, RgbFile>>, <<TallFile>>}

InitSegmented ==
    /\ symbols = GraphicSymbols(LargePool)
    /\ image_filepaths \in SegmentedLists
    /\ image_index = 1
    /\ pc = "scope"
    /\ image = image_filepaths[1].bitmap
    /\ color_mappings = create_color_mappings_from_image(
                            image, PathString(image_filepaths[1]), symbols,
                            create_alphanumeric_symbols).value
    /\ \E output_dir_suffix \in {"", "centered", "preview"} :
          pending \in {P \in SUBSET {t \in LeafTasksOf(image) :
                                        t.output_dir_suffix = output_dir_suffix} :
                          Cardinality(P) >= 1 /\ Cardinality(P) <= MaxPending}
    /\ files = RunAll(NoFiles, image_filepaths[1], image, color_mappings,
                      LeafTasksOf(image) \ pending)
    /\ messages = <<>>
    /\ render_job = NoTask
    /\ canvas = NoCanvas

SpecSegmented == InitSegmented /\ [][Next]_vars

----------------------------------------------------------------------------
(* Runs of main with a resource dir that holds one oversized symbol, so     *)
(* that jobs of an image that uses the symbol panic in blit_symbol.         *)

\* The graphic pool with its k-th symbol oversized.
OversizedPool(k) == [GraphicSymbols(LargePool) EXCEPT ![k] = OversizedSymbol(k)]

FailurePools == {OversizedPool(2)}

FailureLists == {<<BlankFile>>, <<BlankFile, RgbFile>>, <<RgbFile, BlankFile>>}

InitFailure ==
    /\ symbols \in FailurePools
    /\ image_filepaths \in FailureLists
    /\ image_index = 1
    /\ pc = "loop"
    /\ image = NoBitmap
    /\ color_mappings = <<>>
    /\ pending = {}
    /\ files = NoFiles
    /\ messages = <<>>
    /\ render_job = NoTask
    /\ canvas = NoCanvas

NextFailure == Next \/ AbortInHook

SpecFailure == InitFailure /\ [][NextFailure]_vars

\* The jobs of `bitmap` that panic.
PanickingJobs(bitmap, mappings) ==
    {t \in LeafTasksOf(bitmap) : JobPanic(bitmap, mappings, t) /= ""}

TailPools == {GraphicSymbols(LargePool), OversizedPool(2)}

\* The end of a run: the scope of the last image, where the jobs that panic
\* and up to MaxPending of the other jobs are still to run.
InitTail ==
    /\ symbols \in TailPools
    /\ image_filepaths = <<RgbFile>>
    /\ image_index = 1
    /\ pc = "scope"
    /\ image = RgbFile.bitmap
    /\ color_mappings = create_color_mappings_from_image(
                            image, PathString(RgbFile), symbols,
                            create_alphanumeric_symbols).value
    /\ \E others \in SUBSET (LeafTasksOf(image) \ PanickingJobs(image, color_mappings)) :
          /\ Cardinality(others) <= MaxPending
          /\ pending = PanickingJobs(image, color_mappings) \cup others
    /\ pending /= {}
    /\ files = RunAll(NoFiles, RgbFile, image, color_mappings, LeafTasksOf(image) \ pending)
    /\ messages = <<>>
    /\ render_job = NoTask
    /\ canvas = NoCanvas

NextTail ==
    \/ RunCreateCrossStitchPattern
    \/ RunCreateCrossStitchLegend
    \/ RunCreateCrossStitchPatternPreview
    \/ AbortInHook
    \/ ScopeJoin
    \/ Finish

\* A job is ready to run: the enabling condition of JobStep.
JobReady == pc = "scope" /\ \E t \in pending : t.kind \in {"pattern", "legend", "preview"}

JobStep ==
    \/ RunCreateCrossStitchPattern
    \/ RunCreateCrossStitchLegend
    \/ RunCreateCrossStitchPatternPreview

\* Weak fairness of the job steps, with their enabling condition written
\* out: the worker threads of the pool do not leave a ready job waiting
\* for ever.
JobsFair == ([]<>(~JobReady)) \/ ([]<><<JobStep>>_vars)

\* The threads of the process keep running while they have something to
\* do, and every message box is closed at some time.
SpecTailFair ==
    /\ InitTail /\ [][NextTail]_vars
    /\ JobsFair
    /\ WF_vars(AbortInHook) /\ WF_vars(ScopeJoin) /\ WF_vars(Finish)

----------------------------------------------------------------------------
(* Single calls of blit_symbol on bitmaps of pixels.  image is the          *)
(* destination, render_job the arguments and canvas the result.            *)

\* Bound of the model: the largest side of a stamped symbol.
MaxStamp == 2

\* The symbol bitmaps: black marks on a white or a transparent background.
StampSymbols ==
    UNION {{Bitmap(w, h, [i \in 1..(w * h) |-> IF i \in marks THEN Black ELSE background]) :
               marks \in SUBSET (1..(w * h)), background \in {White, Transparent}} :
           w \in 1..MaxStamp, h \in 1..MaxStamp}

\* Destinations of 3 x 3 pixels, of colours on both sides of the threshold.
StampDestinations ==
    {Bitmap(3, 3, [i \in 1..9 |-> <<Red, Blue, White, Black, Green>>[((i + k) % 5) + 1]]) :
        k \in {0, 1}}

StampPositions == {[x |-> x, y |-> y] : x \in -1..2, y \in -1..2}

InitBlit ==
    /\ symbols = <<>>
    /\ image_filepaths = <<>>
    /\ image_index = 1
    /\ pc = "blit"
    /\ image \in StampDestinations
    /\ color_mappings = <<>>
    /\ pending = {}
    /\ files = NoFiles
    /\ messages = <<>>
    /\ render_job \in {[symbol_bitmap |-> symbol, pos |-> pos, mask_color |-> mask] :
                          symbol \in StampSymbols, pos \in StampPositions,
                          mask \in {White, Transparent}}
    /\ canvas = NoCanvas

BlitSymbol ==
    /\ pc = "blit"
    /\ canvas' = [kind |-> "blit",
                  result |-> blit_symbol(render_job.symbol_bitmap, image, render_job.pos,
                                         render_job.mask_color)]
    /\ pc' = "blitted"
    /\ UNCHANGED <<symbols, image_filepaths, image_index, image, color_mappings, pending,
                   files, messages, render_job>>

NextBlit == BlitSymbol

SpecBlit == InitBlit /\ [][NextBlit]_vars

----------------------------------------------------------------------------
(* Single calls of create_cross_stitch_legend, on the palette of an image  *)
(* of 1 to 35 colours or of an image of up to three by three segments.     *)

LegendFiles ==
    {InputFile("ramp", "png", RampBitmap(n)) : n \in 1..Len(ALPHANUM_CHARS)}
    \cup {InputFile("sheet", "png", CyclicBitmap(w, h)) :
             w \in {1, SPLIT_SEGMENT_WIDTH, SPLIT_SEGMENT_WIDTH + 1,
                    2 * SPLIT_SEGMENT_WIDTH + 1},
             h \in {1, SPLIT_SEGMENT_HEIGHT, SPLIT_SEGMENT_HEIGHT + 1,
                    2 * SPLIT_SEGMENT_HEIGHT + 1}}
    \cup {BlankFile}

InitLegend ==
    /\ symbols = GraphicSymbols(LargePool)
    /\ image_filepaths \in {<<f>> : f \in LegendFiles}
    /\ image_index = 1
    /\ pc = "legend"
    /\ image = image_filepaths[1].bitmap
    /\ color_mappings = create_color_mappings_from_image(
                            image, PathString(image_filepaths[1]), symbols,
                            create_alphanumeric_symbols).value
    /\ pending = {}
    /\ files = NoFiles
    /\ messages = <<>>
    /\ render_job \in {t \in create_patterns_dir(image) \cup create_patterns_dir_centered(image) :
                          t.kind = "legend"}
    /\ canvas = NoCanvas

RenderLegend ==
    /\ pc = "legend"
    /\ canvas' = create_cross_stitch_legend([x |-> image.width, y |-> image.height],
                                            color_mappings, Segments(image).coordinates)
    /\ pc' = "rendered"
    /\ UNCHANGED <<symbols, image_filepaths, image_index, image, color_mappings, pending,
                   files, messages, render_job>>

NextLegend == RenderLegend

SpecLegend == InitLegend /\ [][NextLegend]_vars

----------------------------------------------------------------------------
(* One job of the fan-out of an image: the job renders and writes its      *)
(* file or files.                                                          *)

\* Images of one segment, of two and three segments in a row, of two in a
\* column, and of two rows of two segments.
JobFiles ==
    {RgbFile, AlphaFile, WideFile, TallFile,
     InputFile("triple", "png", CyclicBitmap(2 * SPLIT_SEGMENT_WIDTH + 1, 1)),
     InputFile("pages", "png",
               CyclicBitmap(SPLIT_SEGMENT_WIDTH + 1, SPLIT_SEGMENT_HEIGHT + 1))}

InitJob ==
    /\ symbols = GraphicSymbols(LargePool)
    /\ image_filepaths \in {<<f>> : f \in JobFiles}
    /\ image_index = 1
    /\ pc = "job"
    /\ image = image_filepaths[1].bitmap
    /\ color_mappings = create_color_mappings_from_image(
                            image, PathString(image_filepaths[1]), symbols,
                            create_alphanumeric_symbols).value
    /\ pending = {}
    /\ files = NoFiles
    /\ messages = <<>>
    /\ render_job \in LeafTasksOf(image)
    /\ canvas = NoCanvas

RunOneJob ==
    /\ pc = "job"
    /\ files' = JobWrites(files, CurrentFile, image, color_mappings, render_job)
    /\ pc' = "written"
    /\ UNCHANGED <<symbols, image_filepaths, image_index, image, color_mappings, pending,
                   messages, render_job, canvas>>

NextJob == RunOneJob

SpecJob == InitJob /\ [][NextJob]_vars

----------------------------------------------------------------------------
(* Single calls of image.to_segments, on images whose pixels all differ.   *)

\* The w x h image whose pixel at (x, y) is the colour (x, y, 0, 255).
CoordinateBitmap(w, h) ==
    Bitmap(w, h, [i \in 1..(w * h) |-> PixelRGBA((i - 1) % w, (i - 1) \div w, 0, 255)])

\* Widths and heights around zero, one, two and three segments.
SegmentedWidths ==
    {1, 2} \cup {k * SPLIT_SEGMENT_WIDTH + d : k \in {1, 2}, d \in {-1, 0, 1}}
    \cup {3 * SPLIT_SEGMENT_WIDTH}

SegmentedHeights ==
    {1, 2} \cup {k * SPLIT_SEGMENT_HEIGHT + d : k \in {1, 2}, d \in {-1, 0, 1}}
    \cup {3 * SPLIT_SEGMENT_HEIGHT}

InitSegments ==
    /\ symbols = <<>>
    /\ image_filepaths = <<>>
    /\ image_index = 1
    /\ pc = "segments"
    /\ image \in {CoordinateBitmap(w, h) : w \in SegmentedWidths, h \in SegmentedHeights}
    /\ color_mappings = <<>>
    /\ pending = {}
    /\ files = NoFiles
    /\ messages = <<>>
    /\ render_job = NoTask
    /\ canvas = NoCanvas

ToSegments ==
    /\ pc = "segments"
    /\ canvas' = [kind |-> "segments",
                  segment_images |-> Segments(image).images,
                  segment_coordinates |-> Segments(image).coordinates]
    /\ pc' = "segmented"
    /\ UNCHANGED <<symbols, image_filepaths, image_index, image, color_mappings, pending,
                   files, messages, render_job>>

NextSegments == ToSegments

SpecSegments == InitSegments /\ [][NextSegments]_vars

----------------------------------------------------------------------------
(* Properties.  Definitions used by the properties below.                  *)

\* The variable `image` holds the decoded bitmap of the current input file.
ImageOpened ==
    /\ pc \in {"mappings", "scope", "aborted"}
    /\ image_index <= Len(image_filepaths)
    /\ CurrentFile.extension \in {"gif", "png"}

\* The number of pixels of `bitmap` that hold exactly `color`.
PixelCount(bitmap, color) ==
    Cardinality({k \in 1..Len(bitmap.data) : bitmap.data[k] = color})

PaletteSize == Len(image_extract_colors_and_counts(image))

CapacityExceeded ==
    \/ PaletteSize > Len(symbols)
    \/ PaletteSize > Len(create_alphanumeric_symbols)

\* The output files that lie in one of the three directories of `file`.
FilesOf(file) ==
    {p \in DOMAIN files :
        p.dir \in {get_image_output_dir(file, suffix) : suffix \in {"", "centered", "preview"}}}

\* The message box a failed capacity assert of the current image shows.
CapacityError(purpose) ==
    PanicMessage("Not enough symbols to map " \o ToString(PaletteSize)
                 \o " colors found in given image '" \o PathString(CurrentFile)
                 \o "' for " \o purpose,
                 "create_color_mappings_from_image")

LastMessage == messages[Len(messages)]

----------------------------------------------------------------------------
\* C1: after image_extract_colors_and_counts on any image, no palette key
\* has alpha 0, every entry has count >= 1, and the count of an entry is
\* the number of pixels of the image that hold exactly that RGBA value; the
\* colour mappings that main goes on with carry these keys and counts.
C1_PaletteCounts ==
    ImageOpened =>
        LET palette == image_extract_colors_and_counts(image)
        IN  /\ \A i \in 1..Len(palette) :
                  /\ palette[i].color.a /= 0
                  /\ palette[i].count >= 1
                  /\ palette[i].count = PixelCount(image, palette[i].color)
            /\ pc = "scope" =>
                  /\ Len(color_mappings) = Len(palette)
                  /\ \A i \in 1..Len(palette) :
                        /\ color_mappings[i].color = palette[i].color
                        /\ color_mappings[i].count = palette[i].count

\* An image with a transparent pixel of non-zero RGB between two pixels of
\* one colour has been counted.
C1_Witness ==
    /\ pc = "scope"
    /\ \E k \in 1..Len(image.data) : image.data[k] = TransparentRed
    /\ \E i \in 1..Len(color_mappings) : color_mappings[i].count = 2

C4_PositionalAssignment ==
    pc = "scope" =>
        LET palette == image_extract_colors_and_counts(image)
            n == Len(color_mappings)
        IN  /\ n = Len(palette)
            /\ \A i \in 1..n :
                  /\ color_mappings[i].color = palette[i].color
                  /\ color_mappings[i].symbol = symbols[i]
                  /\ color_mappings[i].symbol.index = i
                  /\ color_mappings[i].symbol_alphanum = create_alphanumeric_symbols[i]
                  /\ color_mappings[i].symbol_alphanum.glyph = ALPHANUM_CHARS[i]
            /\ \A i \in 1..n :
                  /\ \A j \in (n + 1)..Len(symbols) :
                        color_mappings[i].symbol /= symbols[j]
                  /\ \A j \in (n + 1)..Len(create_alphanumeric_symbols) :
                        color_mappings[i].symbol_alphanum /= create_alphanumeric_symbols[j]

\* Two colours whose sorted order differs from their order in the image
\* have got the first two symbols of a larger pool.
C4_Witness ==
    /\ pc = "scope"
    /\ Len(color_mappings) = 2
    /\ Len(symbols) > 2
    /\ image.data[1].a /= 0
    /\ color_mappings[1].color /= image.data[1]
    /\ color_mappings[2].symbol_alphanum.glyph = "2"

\* The index of the first pixel of `bitmap` that holds `color`.
FirstSeen(bitmap, color) ==
    CHOOSE k \in 1..Len(bitmap.data) :
        /\ bitmap.data[k] = color
        /\ \A j \in 1..(k - 1) : bitmap.data[j] /= color

\* `bitmap` with its pixels in the opposite scan order.
Reversed(bitmap) ==
    Bitmap(bitmap.width, bitmap.height,
           [i \in 1..Len(bitmap.data) |-> bitmap.data[Len(bitmap.data) + 1 - i]])

\* The palette keys of `bitmap` in palette order.
PaletteKeys(bitmap) ==
    LET palette == image_extract_colors_and_counts(bitmap)
    IN  [i \in 1..Len(palette) |-> palette[i].color]

\* C5 as stated: the comparator never ties for two distinct RGBA keys, so
\* the palette order is the same for every scan order of the same colours.
C5_NoTies ==
    pc = "scope" =>
        /\ \A i, j \in 1..Len(color_mappings) :
              i /= j =>
                 compare_by_hue_luminosity_saturation(
                     color_mappings[i].color, color_mappings[j].color) /= "Equal"
        /\ PaletteKeys(Reversed(image)) = PaletteKeys(image)

\* C5: the palette is sorted by the comparator on (hue, luminosity,
\* saturation) of the RGB channels, which is a total preorder that ignores
\* alpha: keys that differ only in alpha tie, tied keys stay in first-seen
\* order, and keys that do not tie are ordered the same way for every scan
\* order of the image.
C5_StablePreorder ==
    pc = "scope" =>
        \A i, j \in 1..Len(color_mappings) :
            i < j =>
               LET a == color_mappings[i].color
                   b == color_mappings[j].color
                   order == compare_by_hue_luminosity_saturation(a, b)
                   keys == PaletteKeys(Reversed(image))
                   position(key) == CHOOSE k \in 1..Len(keys) : keys[k] = key
               IN  /\ order \in {"Less", "Equal"}
                   /\ compare_by_hue_luminosity_saturation(b, a)
                          = (IF order = "Less" THEN "Greater" ELSE "Equal")
                   /\ (a.r = b.r /\ a.g = b.g /\ a.b = b.b) => order = "Equal"
                   /\ order = "Equal" => FirstSeen(image, a) < FirstSeen(image, b)
                   /\ order = "Less" => position(a) < position(b)

\* Three colours, two of which differ only in alpha: the half-transparent
\* one was seen first and stays first, and the sort has moved the first
\* pixel's colour behind both.
C5_Witness ==
    /\ pc = "scope"
    /\ Len(color_mappings) = 3
    /\ color_mappings[1].color = RedHalf
    /\ color_mappings[2].color = Red
    /\ color_mappings[3].color = image.data[1]

----------------------------------------------------------------------------
\* The pattern canvases among the output files of `file`.
PatternFilesOf(file) == {p \in FilesOf(file) : files[p].content.kind = "pattern"}

AllTransparent(bitmap) == \A k \in 1..Len(bitmap.data) : bitmap.data[k].a = 0

\* C6: for an image whose pixels are all fully transparent the palette is
\* empty, the run is not rejected, and every pattern canvas of every
\* variant and coordinate mode has no symbol and no colour fill: each cell
\* is white.
C6_TransparentImageBlank ==
    (ImageOpened /\ AllTransparent(image)) =>
        /\ image_extract_colors_and_counts(image) = <<>>
        /\ pc /= "aborted"
        /\ pc = "scope" => color_mappings = <<>>
        /\ \A p \in PatternFilesOf(CurrentFile) :
              \A c \in DOMAIN files[p].content.cells :
                 /\ files[p].content.cells[c].fill = White
                 /\ files[p].content.cells[c].symbol = NoSymbol

\* All eight pattern canvases of an all-transparent image that has a
\* transparent pixel of non-zero RGB have been written.
C6_Witness ==
    /\ pc = "scope"
    /\ pending = {}
    /\ AllTransparent(image)
    /\ \E k \in 1..Len(image.data) : image.data[k] = TransparentRed
    /\ Cardinality(PatternFilesOf(CurrentFile)) = 8

----------------------------------------------------------------------------
(* Grid lines of a rendered pattern canvas.  Positions are relative to the *)
(* left/top edge of cell (0, 0).                                           *)

IsMultipleOfTen(v) == \E q \in -100..100 : v = 10 * q

\* The rectangles of `color` that run over the whole height of the cells
\* and are `w` wide.
VerticalLines(c, color, w) ==
    {i \in 1..Len(c.scaled_bitmap.rects) :
        /\ c.scaled_bitmap.rects[i].color = color
        /\ c.scaled_bitmap.rects[i].w = w
        /\ c.scaled_bitmap.rects[i].h = TILE_SIZE * c.grid_height}

\* The rectangles of `color` that run over the whole width of the cells
\* and are `h` high.
HorizontalLines(c, color, h) ==
    {i \in 1..Len(c.scaled_bitmap.rects) :
        /\ c.scaled_bitmap.rects[i].color = color
        /\ c.scaled_bitmap.rects[i].h = h
        /\ c.scaled_bitmap.rects[i].w = TILE_SIZE * c.grid_width}

LineXs(c, lines) == {c.scaled_bitmap.rects[i].x - c.scaled_bitmap.cell_x0 : i \in lines}
LineYs(c, lines) == {c.scaled_bitmap.rects[i].y - c.scaled_bitmap.cell_y0 : i \in lines}

\* The pixel (px, py) of the canvas shows the thin grid colour.
ThinVisibleAt(c, px, py) ==
    /\ Covering(c.scaled_bitmap, px, py) /= {}
    /\ c.scaled_bitmap.rects[SetMax(Covering(c.scaled_bitmap, px, py))].color
           = COLOR_GRID_THIN

\* The pixel columns that show the thin grid colour on a pixel row through
\* the middle of the first row of cells, and likewise the pixel rows.
VisibleThinColumns(c) ==
    {px \in 0..(c.scaled_bitmap.width - 1) :
        ThinVisibleAt(c, px, c.scaled_bitmap.cell_y0 + TILE_SIZE \div 2)}

VisibleThinRows(c) ==
    {py \in 0..(c.scaled_bitmap.height - 1) :
        ThinVisibleAt(c, c.scaled_bitmap.cell_x0 + TILE_SIZE \div 2, py)}

\* The grid lines first..first+size that are logical multiples of ten.
TenLines(first, size) == {k \in 0..size : IsMultipleOfTen(first + k)}

\* C7 as stated: exactly N+1 vertical and M+1 horizontal thin lines are
\* visible on every canvas, also where thick lines are drawn over them.
C7_AllThinLinesVisible ==
    canvas.kind = "pattern" =>
        /\ Cardinality(VisibleThinColumns(canvas)) = canvas.grid_width + 1
        /\ Cardinality(VisibleThinRows(canvas)) = canvas.grid_height + 1

\* C7: exactly N+1 vertical and M+1 horizontal thin lines are drawn, one at
\* the leading edge of each cell and one closing line on the last pixel;
\* all of them are visible when no thick grid is drawn, and with the thick
\* grid every thin line at a logical multiple of ten is covered and the
\* others are visible.
C7_ThinGridClosed ==
    canvas.kind = "pattern" =>
        LET N == canvas.grid_width
            M == canvas.grid_height
            columns == VerticalLines(canvas, COLOR_GRID_THIN, 1)
            rows == HorizontalLines(canvas, COLOR_GRID_THIN, 1)
            covered_x == IF render_job.add_thick_ten_grid
                         THEN TenLines(render_job.logical_first_coordinate_x, N) ELSE {}
            covered_y == IF render_job.add_thick_ten_grid
                         THEN TenLines(render_job.logical_first_coordinate_y, M) ELSE {}
            pixel(k, size) == IF k = size THEN TILE_SIZE * size - 1 ELSE TILE_SIZE * k
        IN  /\ Cardinality(columns) = N + 1
            /\ LineXs(canvas, columns) = {pixel(k, N) : k \in 0..N}
            /\ Cardinality(rows) = M + 1
            /\ LineYs(canvas, rows) = {pixel(k, M) : k \in 0..M}
            /\ VisibleThinColumns(canvas)
                  = {canvas.scaled_bitmap.cell_x0 + pixel(k, N) : k \in (0..N) \ covered_x}
            /\ VisibleThinRows(canvas)
                  = {canvas.scaled_bitmap.cell_y0 + pixel(k, M) : k \in (0..M) \ covered_y}

\* A centered canvas of more than ten columns with thick lines and origin
\* bars, where fewer than N+1 thin columns remain visible.
C7_Witness ==
    /\ canvas.kind = "pattern"
    /\ render_job.add_thick_ten_grid
    /\ render_job.add_origin_grid_bars
    /\ canvas.grid_width > 10
    /\ Cardinality(VisibleThinColumns(canvas)) = canvas.grid_width - 1

\* C8: with the thick grid, a thick vertical line is drawn at cell column
\* bx iff the logical coordinate logical_first_x + bx is a multiple of
\* ten, and the closing thick line at the far edge iff logical_first_x +
\* width is one; likewise for rows; this holds for negative coordinates,
\* and shifting the origin by a multiple of ten changes no thick line.
C8_ThickGridLogical ==
    canvas.kind = "pattern" =>
        LET N == canvas.grid_width
            M == canvas.grid_height
            lx == render_job.logical_first_coordinate_x
            ly == render_job.logical_first_coordinate_y
            base == ScaledBitmap(TILE_SIZE * N, TILE_SIZE * M)
            expected(first, size) ==
                IF render_job.add_thick_ten_grid
                THEN {TILE_SIZE * k : k \in TenLines(first, size) \ {size}}
                     \cup (IF IsMultipleOfTen(first + size)
                           THEN {TILE_SIZE * size - 2} ELSE {})
                ELSE {}
        IN  /\ LineXs(canvas, VerticalLines(canvas, COLOR_GRID_THICK, 2)) = expected(lx, N)
            /\ LineYs(canvas, HorizontalLines(canvas, COLOR_GRID_THICK, 2)) = expected(ly, M)
            /\ \A i \in 1..Len(canvas.scaled_bitmap.rects) :
                  canvas.scaled_bitmap.rects[i].color = COLOR_GRID_THICK =>
                     i \in VerticalLines(canvas, COLOR_GRID_THICK, 2)
                           \cup HorizontalLines(canvas, COLOR_GRID_THICK, 2)
            /\ \A shift \in {-20, -10, 10, 20} :
                  AddThickGrid(base, N, M, lx + shift, ly + shift)
                      = AddThickGrid(base, N, M, lx, ly)

\* A centered canvas that starts at logical x = -10: thick lines at cell
\* columns 0 and 10 and the closing thick line at column 20.
C8_Witness ==
    /\ canvas.kind = "pattern"
    /\ render_job.add_thick_ten_grid
    /\ render_job.logical_first_coordinate_x = -10
    /\ canvas.grid_width = 20
    /\ LineXs(canvas, VerticalLines(canvas, COLOR_GRID_THICK, 2))
           = {0, TILE_SIZE * 10, TILE_SIZE * 20 - 2}

\* C9: on a centered canvas every label on the left and on the right edge
\* shows the text of -y for the logical y of its grid line, the two edges
\* carry the same labels, and every label on the top and bottom edge shows
\* the logical x unchanged.
C9_VerticalLabelsNegated ==
    (canvas.kind = "pattern" /\ render_job.output_dir_suffix = "centered") =>
        LET labels(edge) ==
                {<<canvas.labels[i].coord, canvas.labels[i].text>> :
                    i \in {k \in 1..Len(canvas.labels) : canvas.labels[k].edge = edge}}
        IN  /\ \A i \in 1..Len(canvas.labels) :
                  LET label == canvas.labels[i]
                  IN  IF label.edge \in {"left", "right"}
                      THEN label.text
                              = ToString(-(render_job.logical_first_coordinate_y + label.coord))
                      ELSE /\ label.edge \in {"top", "bottom"}
                           /\ label.text
                                 = ToString(render_job.logical_first_coordinate_x + label.coord)
            /\ labels("left") = labels("right")
            /\ labels("top") = labels("bottom")

\* A centered canvas whose last grid line is logical y = 7 and is labelled
\* "-7" on the left edge, and whose first grid line y = -7 is labelled "7".
C9_Witness ==
    /\ canvas.kind = "pattern"
    /\ render_job.output_dir_suffix = "centered"
    /\ render_job.logical_first_coordinate_y = -7
    /\ \E i \in 1..Len(canvas.labels) :
          /\ canvas.labels[i].edge = "left"
          /\ canvas.labels[i].coord = 14
          /\ canvas.labels[i].text = "-7"
    /\ \E i \in 1..Len(canvas.labels) :
          /\ canvas.labels[i].edge = "right"
          /\ canvas.labels[i].coord = 0
          /\ canvas.labels[i].text = "7"

----------------------------------------------------------------------------
\* The file names in the output directory of `file` for one coordinate mode.
NamesIn(file, output_dir_suffix) ==
    {p.name : p \in {q \in DOMAIN files :
                        q.dir = get_image_output_dir(file, output_dir_suffix)}}

\* The four pattern files and the legend of the whole image.
CompleteSet(file) ==
    {file.name \o "_" \o prefix \o "complete.png" :
        prefix \in {"cross_stitch_colorized_", "cross_stitch_",
                    "cross_stitch_colorized_no_symbols_", "paint_by_numbers_"}}
    \cup {file.name \o "_legend.png"}

\* C10: an image of at most 60 x 80 pixels has exactly one segment, and
\* the output directory of each coordinate mode holds exactly the four
\* pattern files of the whole image and the legend, and never a file of a
\* segment.
C10_SinglePageOutputs ==
    (/\ ImageOpened
     /\ image.width <= SPLIT_SEGMENT_WIDTH
     /\ image.height <= SPLIT_SEGMENT_HEIGHT) =>
        /\ Len(Segments(image).images) = 1
        /\ \A mode \in {"", "centered"} :
              /\ NamesIn(CurrentFile, mode) \subseteq CompleteSet(CurrentFile)
              /\ (pc = "scope" /\ pending = {}) =>
                    /\ NamesIn(CurrentFile, mode) = CompleteSet(CurrentFile)
                    /\ Cardinality({p \in PatternFilesOf(CurrentFile) :
                           p.dir = get_image_output_dir(CurrentFile, mode)}) = 4

\* All jobs of a 3 x 2 image have finished: five files in each of the two
\* pattern directories and the three preview files.
C10_Witness ==
    /\ pc = "scope"
    /\ pending = {}
    /\ CurrentFile = RgbFile
    /\ Cardinality(NamesIn(CurrentFile, "")) = 5
    /\ Cardinality(NamesIn(CurrentFile, "centered")) = 5
    /\ Cardinality(FilesOf(CurrentFile)) = 13

----------------------------------------------------------------------------
\* The legend files among the output files of `file`.
LegendFilesOf(file) == {p \in FilesOf(file) : files[p].content.kind = "legend"}

\* The indices of the pixels of `bitmap` with alpha /= 0, in row-major order.
OpaquePixels(bitmap) ==
    SelectSeq([k \in 1..Len(bitmap.data) |-> k], LAMBDA k : bitmap.data[k].a /= 0)

\* C11: the statistics of every legend are exact: Size is width x height
\* of the image, Colors is the number of distinct RGBA values with alpha
\* /= 0 in the image, and Stitches is the sum of the palette counts, which
\* is the number of pixels with alpha /= 0.
C11_LegendStatistics ==
    ImageOpened =>
        \A p \in LegendFilesOf(CurrentFile) :
            LET opaque == OpaquePixels(image)
                colors == {image.data[opaque[k]] : k \in 1..Len(opaque)}
            IN  /\ files[p].content.stats
                      = "Size:     " \o ToString(image.width) \o "x" \o ToString(image.height)
                        \o "\n\nColors:   " \o ToString(Cardinality(colors))
                        \o "\n\nStitches: " \o ToString(Len(opaque)) \o "\n\n\n"
                /\ StitchCountFrom(color_mappings, 1, 0) = Len(opaque)

\* The legend of the opaque 3 x 2 image of three colours has been written
\* in both coordinate modes.
C11_Witness ==
    /\ ImageOpened
    /\ image.width = 3
    /\ image.height = 2
    /\ Cardinality(LegendFilesOf(CurrentFile)) = 2
    /\ \A p \in LegendFilesOf(CurrentFile) :
          files[p].content.stats = "Size:     3x2\n\nColors:   3\n\nStitches: 6\n\n\n"

\* The preview files among the output files of `file`.
PreviewFilesOf(file) ==
    {p \in FilesOf(file) :
        files[p].content.kind \in {"preview", "preview_background", "preview_stitches"}}

\* C12: the preview seeds its random generator with the fixed seed 1234
\* and makes one random call per pixel with alpha /= 0, in row-major order,
\* so the k-th stitched pixel always gets the k-th value of the generator:
\* the written preview depends on the image alone, whatever the order in
\* which the jobs of the image run.
C12_PreviewDeterministic ==
    ImageOpened =>
        \A p \in PreviewFilesOf(CurrentFile) :
            LET opaque == OpaquePixels(image)
                stitches == files[p].content.stitches
            IN  /\ files[p].content.seed = 1234
                /\ Len(stitches) = Len(opaque)
                /\ \A k \in 1..Len(stitches) :
                      /\ stitches[k].draw = k
                      /\ stitches[k].x = 10 + ((opaque[k] - 1) % image.width)
                      /\ stitches[k].y = 10 + ((opaque[k] - 1) \div image.width)
                      /\ stitches[k].color = image.data[opaque[k]]
                      /\ stitches[k].found

\* The preview of an image with a transparent pixel between stitched ones
\* has been written while pattern jobs of the image are still pending.
C12_Witness ==
    /\ pc = "scope"
    /\ CurrentFile = AlphaFile
    /\ Cardinality(PreviewFilesOf(CurrentFile)) = 3
    /\ \E t \in pending : t.kind = "pattern"
    /\ \A p \in PreviewFilesOf(CurrentFile) : Len(files[p].content.stitches) = 3

----------------------------------------------------------------------------
\* The logical origin of the image in cell coordinates for a coordinate
\* mode: (0, 0), or the centre rounded up.
OriginOffset(bitmap, output_dir_suffix) ==
    IF output_dir_suffix = "centered"
    THEN [x |-> (bitmap.width + 1) \div 2, y |-> (bitmap.height + 1) \div 2]
    ELSE [x |-> 0, y |-> 0]

\* C13: the logical coordinate of an image cell is the same on the complete
\* canvas and on the canvas of the segment that holds it: the complete
\* canvas starts at logical (-ox, -oy), the segment at tile (c, r) starts at
\* (60*c - ox, 80*r - oy) and shows the image cells from (60*c, 80*r) on,
\* with (ox, oy) = (0, 0) in default mode and (ceil(width/2),
\* ceil(height/2)) in centered mode.
C13_SegmentLogicalCoordinates ==
    canvas.kind = "pattern" =>
        LET origin == OriginOffset(image, render_job.output_dir_suffix)
            flags == PatternFlags(render_job.pattern_type)
            tile == IF render_job.segment_index = 0
                    THEN [x |-> 0, y |-> 0]
                    ELSE Segments(image).coordinates[render_job.segment_index]
        IN  /\ render_job.logical_first_coordinate_x = 60 * tile.x - origin.x
            /\ render_job.logical_first_coordinate_y = 80 * tile.y - origin.y
            /\ \A cell \in DOMAIN canvas.cells :
                  /\ 60 * tile.x + cell[1] < image.width
                  /\ 80 * tile.y + cell[2] < image.height
                  /\ canvas.cells[cell]
                        = PatternCell(image, color_mappings,
                                      60 * tile.x + cell[1], 80 * tile.y + cell[2], flags)
            /\ render_job.segment_index /= 0 =>
                  /\ tile.x = (render_job.segment_index - 1) % ((image.width + 59) \div 60)
                  /\ tile.y = (render_job.segment_index - 1) \div ((image.width + 59) \div 60)

\* The canvas of the fourth segment of a 61 x 81 image in centered mode: it
\* starts at logical (60 - 31, 80 - 41).
C13_Witness ==
    /\ canvas.kind = "pattern"
    /\ image.width = 61
    /\ image.height = 81
    /\ render_job.output_dir_suffix = "centered"
    /\ render_job.segment_index = 4
    /\ render_job.logical_first_coordinate_x = 29
    /\ render_job.logical_first_coordinate_y = 39
    /\ canvas.grid_width = 1
    /\ canvas.grid_height = 1

----------------------------------------------------------------------------
(* Jobs and their output files *)

\* The paths job t of the current image writes to.
JobPaths(t) == {JobPath(CurrentFile, t, tail) : tail \in JobTails(t)}

\* The jobs of the current image that write files and have not yet run or
\* are not yet spawned.
Outstanding ==
    {t \in LeafTasksOf(image) :
        \/ t \in pending
        \/ \E s \in pending :
              \/ s.kind = "pattern_set" /\ t \in create_cross_stitch_pattern_set(s)
              \/ s.kind = "create_patterns_dir"
                    /\ t \in LeafTasksOf(image) /\ t.output_dir_suffix = ""
              \/ s.kind = "create_patterns_dir_centered"
                    /\ t \in LeafTasksOf(image) /\ t.output_dir_suffix = "centered"
              \/ s.kind = "create_preview_dir"
                    /\ t \in LeafTasksOf(image) /\ t.output_dir_suffix = "preview"}

\* C14: the paths of two different jobs of an image never coincide (the
\* path encodes mode, variant and segment index injectively), no job finds
\* its path already written by another job, every file of the image has
\* been written exactly once, and when all jobs are done the files of the
\* image are exactly the paths of its jobs.
C14_DisjointOutputs ==
    (pc = "scope" /\ image_index <= Len(image_filepaths)) =>
        /\ \A t1, t2 \in LeafTasksOf(image) :
              t1 /= t2 => JobPaths(t1) \cap JobPaths(t2) = {}
        /\ \A t \in Outstanding : JobPaths(t) \cap DOMAIN files = {}
        /\ \A p \in FilesOf(CurrentFile) : files[p].writes = 1
        /\ FilesOf(CurrentFile) =
              UNION {JobPaths(t) : t \in LeafTasksOf(image) \ Outstanding}

C14_Witness ==
    /\ pc = "scope"
    /\ pending = {}
    /\ CurrentFile = WideFile
    /\ Cardinality(LeafTasksOf(image)) = 23
    /\ Cardinality(FilesOf(WideFile)) = 25
    /\ OutputPath(WideFile, "centered", "_cross_stitch_colorized_segment_2.png")
           \in DOMAIN files
    /\ OutputPath(WideFile, "", "_cross_stitch_colorized_segment_2.png") \in DOMAIN files
    /\ \A p \in FilesOf(WideFile) : files[p].writes = 1

----------------------------------------------------------------------------
(* The palette and the jobs *)

\* The palette of the current image as create_color_mappings_from_image
\* returns it.
CompletePalette ==
    create_color_mappings_from_image(image, PathString(CurrentFile), symbols,
                                     create_alphanumeric_symbols)

\* Jobs exist only inside main's scope, where the palette is complete: its
\* keys in order with their counts, both symbols and the stitch textures.
PaletteReadyForJobs ==
    /\ pending /= {} => pc = "scope"
    /\ (pc = "mappings" /\ image_index <= Len(image_filepaths)) =>
           FilesOf(CurrentFile) = {}
    /\ pc = "scope" =>
           /\ CompletePalette.panic = ""
           /\ color_mappings = CompletePalette.value
           /\ [i \in DOMAIN color_mappings |-> color_mappings[i].color]
                  = PaletteKeys(image)
           /\ \A i \in DOMAIN color_mappings :
                  /\ color_mappings[i].count = PixelCount(image, color_mappings[i].color)
                  /\ color_mappings[i].symbol = symbols[i]
                  /\ color_mappings[i].symbol_alphanum = create_alphanumeric_symbols[i]

\* A step of a task inside the scope leaves palette and image as they are.
JobKeepsPalette ==
    (pc = "scope" /\ pending' /= pending) =>
        /\ color_mappings' = color_mappings
        /\ image' = image
        /\ symbols' = symbols

\* C15: the palette of an image is complete before any of its jobs starts,
\* and no job changes it: keys, order, counts and symbols are the same at
\* the start and at the end of every job.
C15_PaletteImmutableDuringJobs == [](PaletteReadyForJobs) /\ [][JobKeepsPalette]_vars

C15_Witness ==
    /\ pc = "scope"
    /\ CurrentFile = AlphaFile
    /\ Len(color_mappings) >= 2
    /\ Cardinality(FilesOf(CurrentFile)) >= 3
    /\ \E t \in pending : t.kind = "pattern"
    /\ color_mappings = CompletePalette.value

----------------------------------------------------------------------------
(* Fan-in *)

\* Every path the jobs of the input `file` write to.
AllJobPaths(file) ==
    UNION {{JobPath(file, t, tail) : tail \in JobTails(t)} : t \in LeafTasksOf(file.bitmap)}

SuccessShown ==
    \E i \in 1..Len(messages) : messages[i].message = "Finished creating patterns. Enjoy!"

\* C16: outside the scope of an image no task is pending; while the
\* directories of image k+1 are created, its palette is extracted and its
\* jobs run, every job of the images before it, down to the jobs of the
\* variants and of the segments, has written its file; the completion
\* message is shown only when that holds for every image.
C16_FanInPerImage ==
    /\ pc /= "scope" => pending = {}
    /\ \A k \in 1..Len(image_filepaths) :
          k < image_index =>
              /\ FilesOf(image_filepaths[k]) = AllJobPaths(image_filepaths[k])
              /\ \A p \in FilesOf(image_filepaths[k]) : files[p].writes = 1
    /\ SuccessShown =>
          /\ pc = "finished"
          /\ image_index = Len(image_filepaths) + 1
          /\ messages = <<MessageBox("Pixie Stitch", "Finished creating patterns. Enjoy!",
                                     FALSE)>>

C16_Witness ==
    /\ image_filepaths = <<WideFile, RgbFile>>
    /\ image_index = 2
    /\ pc = "scope"
    /\ \E t \in pending : t.kind = "pattern"
    /\ FilesOf(RgbFile) /= {}
    /\ Cardinality(FilesOf(WideFile)) = 25

----------------------------------------------------------------------------
(* Pattern sets of segments *)

\* All jobs of the k-th input have finished.
JobsDone(k) ==
    \/ k < image_index
    \/ k = image_index /\ pc = "scope" /\ pending = {}

SegmentVariants == {"cross_stitch_colorized_", "cross_stitch_", "cross_stitch_colorized_no_symbols_"}

\* The name of the file of segment i of `file` for the variant `prefix`.
SegmentName(file, prefix, i) ==
    file.name \o "_" \o prefix \o "segment_" \o ToString(i) \o ".png"

\* The names of the files of all segments of `file`, three per segment.
SegmentSets(file) ==
    {SegmentName(file, prefix, i) :
        prefix \in SegmentVariants, i \in 1..Len(Segments(file.bitmap).images)}

\* C19: a directory of patterns holds files of segments only when the
\* image splits into more than one segment; then every segment has exactly
\* the three variants colorized, black and white, colorized without
\* symbols; a paint-by-numbers file exists only for the complete image.
C19_SegmentSets ==
    \A k \in 1..Len(image_filepaths) : \A mode \in {"", "centered"} :
        LET file == image_filepaths[k]
            count == Len(Segments(file.bitmap).images)
            names == NamesIn(file, mode)
            dir == {p \in DOMAIN files : p.dir = get_image_output_dir(file, mode)}
        IN  /\ \A i \in 1..(count + 1) :
                  SegmentName(file, "paint_by_numbers_", i) \notin names
            /\ JobsDone(k) =>
                  /\ names = CompleteSet(file)
                                \cup (IF count > 1 THEN SegmentSets(file) ELSE {})
                  /\ Cardinality(names \ CompleteSet(file))
                         = (IF count > 1 THEN 3 * count ELSE 0)
                  /\ \A p \in dir :
                        (/\ files[p].content.kind = "pattern"
                         /\ files[p].content.symbol_mask_color = Transparent)
                            <=> p.name = file.name \o "_paint_by_numbers_complete.png"

C19_Witness ==
    /\ image_filepaths = <<WideFile, RgbFile>>
    /\ JobsDone(1)
    /\ JobsDone(2)
    /\ Len(Segments(WideFile.bitmap).images) = 2
    /\ Cardinality(NamesIn(WideFile, "centered") \ CompleteSet(WideFile)) = 6
    /\ SegmentName(WideFile, "cross_stitch_", 2) \in NamesIn(WideFile, "")
    /\ NamesIn(RgbFile, "") = CompleteSet(RgbFile)

----------------------------------------------------------------------------
(* Origin bars *)

\* The black rectangles 4 pixels wide that run over the height of the cells.
OriginBarsVertical(c) ==
    {i \in 1..Len(c.scaled_bitmap.rects) :
        /\ c.scaled_bitmap.rects[i].color = Black
        /\ c.scaled_bitmap.rects[i].w = 4
        /\ c.scaled_bitmap.rects[i].h >= TILE_SIZE * c.grid_height}

\* The black rectangles 4 pixels high that run over the width of the cells.
OriginBarsHorizontal(c) ==
    {i \in 1..Len(c.scaled_bitmap.rects) :
        /\ c.scaled_bitmap.rects[i].color = Black
        /\ c.scaled_bitmap.rects[i].h = 4
        /\ c.scaled_bitmap.rects[i].w >= TILE_SIZE * c.grid_width}

\* The bar i has its white core drawn right after it.
HasWhiteCore(c, i, vertical) ==
    /\ i + 1 <= Len(c.scaled_bitmap.rects)
    /\ LET bar == c.scaled_bitmap.rects[i]
           core == c.scaled_bitmap.rects[i + 1]
       IN  /\ core.color = White
           /\ IF vertical
              THEN core.x = bar.x + 1 /\ core.w = 2 /\ core.y = bar.y /\ core.h = bar.h
              ELSE core.y = bar.y + 1 /\ core.h = 2 /\ core.x = bar.x /\ core.w = bar.w

\* The padding the origin bars add on one side.
EdgePadding(bars, on_edge) == IF bars /\ on_edge THEN 2 ELSE 0

\* C20: origin bars are drawn for the three cross stitch variants of the
\* centered mode only.  There a canvas of w x h cells starting at (x0, y0)
\* has a vertical bar iff 0 <= -x0 <= w, centred on the cell boundary -x0,
\* and the bitmap is padded by 2 pixels on the left when -x0 = 0 and on the
\* right when -x0 = w; rows likewise.  Without origin bars the bitmap has
\* no bar and no padding.
C20_OriginBars ==
    canvas.kind = "pattern" =>
        LET bars == render_job.add_origin_grid_bars
            x0 == render_job.logical_first_coordinate_x
            y0 == render_job.logical_first_coordinate_y
            w == canvas.grid_width
            h == canvas.grid_height
            bm == canvas.scaled_bitmap
            vertical == OriginBarsVertical(canvas)
            horizontal == OriginBarsHorizontal(canvas)
        IN  /\ bars <=> (/\ render_job.output_dir_suffix = "centered"
                         /\ render_job.pattern_type /= "PaintByNumbers")
            /\ {bm.rects[i].x + 2 - bm.cell_x0 : i \in vertical}
                  = (IF bars /\ 0 <= -x0 /\ -x0 <= w THEN {TILE_SIZE * (-x0)} ELSE {})
            /\ {bm.rects[i].y + 2 - bm.cell_y0 : i \in horizontal}
                  = (IF bars /\ 0 <= -y0 /\ -y0 <= h THEN {TILE_SIZE * (-y0)} ELSE {})
            /\ Cardinality(vertical) <= 1
            /\ Cardinality(horizontal) <= 1
            /\ \A i \in vertical : HasWhiteCore(canvas, i, TRUE)
            /\ \A i \in horizontal : HasWhiteCore(canvas, i, FALSE)
            /\ bm.cell_x0 = EdgePadding(bars, -x0 = 0)
            /\ bm.cell_y0 = EdgePadding(bars, -y0 = 0)
            /\ bm.width = TILE_SIZE * w + EdgePadding(bars, -x0 = 0) + EdgePadding(bars, -x0 = w)
            /\ bm.height = TILE_SIZE * h + EdgePadding(bars, -y0 = 0) + EdgePadding(bars, -y0 = h)

\* The left half of a 120 x 1 image in centered mode: the origin lies on
\* its right edge and below its only row.
C20_Witness ==
    /\ canvas.kind = "pattern"
    /\ render_job.add_origin_grid_bars
    /\ image.width = 2 * SPLIT_SEGMENT_WIDTH
    /\ render_job.segment_index = 1
    /\ render_job.logical_first_coordinate_x = -SPLIT_SEGMENT_WIDTH
    /\ canvas.grid_width = SPLIT_SEGMENT_WIDTH
    /\ canvas.scaled_bitmap.width = TILE_SIZE * SPLIT_SEGMENT_WIDTH + 2
    /\ canvas.scaled_bitmap.cell_x0 = 0
    /\ \E i \in OriginBarsVertical(canvas) :
          canvas.scaled_bitmap.rects[i].x = TILE_SIZE * SPLIT_SEGMENT_WIDTH - 2

----------------------------------------------------------------------------
(* Failures *)

Ended == pc \in {"finished", "aborted"}

IsErrorMessage(m) == m.is_error /\ m.caption = "Pixie Stitch Error"

\* A job or step has panicked: its message box is or was on the screen.
Failed == \E i \in 1..Len(messages) : IsErrorMessage(messages[i])

SuccessMessage == MessageBox("Pixie Stitch", "Finished creating patterns. Enjoy!", FALSE)

\* After a failure no file is written or removed, the loop does not move
\* on to a later image, a panicked job stays in its hook and the success
\* message is not shown.
NothingAfterFailure ==
    Failed =>
        /\ files' = files
        /\ image_index' = image_index
        /\ pc' \notin {"loop", "mappings", "finished"}
        /\ \A t \in pending : t.kind = "panic_hook" => t \in pending'
        /\ SuccessMessage \notin {messages'[i] : i \in 1..Len(messages')}

\* C17 as stated: once a job or step has panicked, no other job writes a
\* further output file, no later image is processed, nothing is retried
\* and the success message is never shown.
C17_AbortIsImmediate == [][NothingAfterFailure]_vars

\* What remains of C17 while the message box of the hook is open: the run
\* never reaches a later image or the success message, and a panicked job
\* is not run again.
FailureEndsTheLoop ==
    Failed =>
        /\ image_index' = image_index
        /\ pc' \notin {"loop", "mappings", "finished"}
        /\ \A t \in pending : t.kind = "panic_hook" => t \in pending'
        /\ SuccessMessage \notin {messages'[i] : i \in 1..Len(messages')}

FailureEndsTheLoopAlways == [][FailureEndsTheLoop]_vars

RunsEnd == <>Ended

\* The messages shown are one summary: the success message, or one error
\* message with the panic's message and its location.
OneSummary ==
    /\ Len(messages) = 1
    /\ \/ messages[1] = SuccessMessage /\ pc = "finished"
       \/ IsErrorMessage(messages[1]) /\ pc = "aborted"

\* C18 as stated: every run ends, and when it has ended exactly one
\* message was shown, the success message after all images or the error
\* message of the failure that aborted the run.
C18_OneSummaryAtEnd == RunsEnd /\ [](Ended => OneSummary)

\* What remains of C18: every run ends, and when it has ended either the
\* success message alone was shown, or only error messages, one for each
\* job that panicked before the process was aborted.
EndsWithSummaries ==
    RunsEnd /\ [](Ended =>
                    /\ Len(messages) >= 1
                    /\ \/ messages = <<SuccessMessage>> /\ pc = "finished"
                       \/ /\ pc = "aborted"
                          /\ \A i \in 1..Len(messages) : IsErrorMessage(messages[i])
                          /\ Len(messages) = Cardinality({t \in pending : t.kind = "panic_hook"}))

\* The message box of a panicked legend job is open while a pattern job
\* that does not panic is still to write its file.
C17_Witness ==
    /\ pc = "scope"
    /\ Failed
    /\ \E t \in pending : t.kind = "panic_hook"
    /\ \E t \in pending : t.kind = "pattern" /\ JobPanic(image, color_mappings, t) = ""

\* The process was aborted with the message boxes of two jobs shown.
C18_Witness ==
    /\ pc = "aborted"
    /\ Len(messages) = 2
    /\ Cardinality({t \in pending : t.kind = "panic_hook"}) = 2

----------------------------------------------------------------------------
(* Stamping a symbol *)

\* The stamp's rectangle lies inside the destination.
StampInside ==
    /\ render_job.pos.x >= 0
    /\ render_job.pos.y >= 0
    /\ render_job.pos.x + render_job.symbol_bitmap.width <= image.width
    /\ render_job.pos.y + render_job.symbol_bitmap.height <= image.height

\* The destination pixel (px, py) lies under a pixel of the symbol that
\* differs from the mask colour.
UnderMark(px, py) ==
    LET sx == px - render_job.pos.x
        sy == py - render_job.pos.y
        symbol == render_job.symbol_bitmap
    IN  /\ sx \in 0..(symbol.width - 1)
        /\ sy \in 0..(symbol.height - 1)
        /\ symbol.data[sy * symbol.width + sx + 1] /= render_job.mask_color

\* C21: a stamp that is not fully inside the destination is rejected by an
\* assert and changes nothing; otherwise one ink is chosen from the
\* destination pixel under the stamp's origin (black when its relative
\* luminance is above 0.2, white otherwise) and written to exactly the
\* pixels under symbol pixels that differ from the mask colour; every
\* other pixel keeps its colour.
C21_StampInk ==
    canvas.kind = "blit" =>
        IF ~StampInside
        THEN canvas.result.panic /= "" /\ canvas.result.value = image
        ELSE LET origin == image.data[render_job.pos.y * image.width + render_job.pos.x + 1]
                 ink == IF 2126 * origin.r + 7152 * origin.g + 722 * origin.b > 510000
                        THEN Black ELSE White
                 after == canvas.result.value
             IN  /\ canvas.result.panic = ""
                 /\ after.width = image.width
                 /\ after.height = image.height
                 /\ \A px \in 0..(image.width - 1), py \in 0..(image.height - 1) :
                       after.data[py * image.width + px + 1]
                           = (IF UnderMark(px, py) THEN ink
                              ELSE image.data[py * image.width + px + 1])

\* A 2 x 2 symbol with one mark on a white background, stamped with the
\* white mask onto a red origin: the blue pixel under the mark turns black,
\* the origin and the other pixels stay.
C21_Witness ==
    /\ canvas.kind = "blit"
    /\ StampInside
    /\ render_job.symbol_bitmap = Bitmap(2, 2, <<White, Black, White, White>>)
    /\ render_job.mask_color = White
    /\ render_job.pos = [x |-> 1, y |-> 1]
    /\ image.data[5] = Red
    /\ image.data[6] = Blue
    /\ canvas.result.value.data[6] = Black
    /\ canvas.result.value.data[5] = Red
    /\ canvas.result.value.data[9] = image.data[9]

----------------------------------------------------------------------------
(* Cells of a pattern *)

\* The position of `color` among the keys of the palette of the image.
PaletteIndex(color) ==
    CHOOSE i \in 1..Len(color_mappings) : color_mappings[i].color = color

\* C22: the cell of a source pixel is filled with the pixel's colour only
\* in the variants Colorized and ColorizedNoSymbols and only when alpha is
\* not 0, and with white otherwise; it carries a symbol only in the
\* variants Colorized, BlackAndWhite and PaintByNumbers and only when alpha
\* is not 0: the alphanumeric symbol of the colour for PaintByNumbers, its
\* graphic symbol otherwise.  A transparent pixel has a white cell without
\* symbol in every variant.
C22_CellFillAndSymbol ==
    canvas.kind = "pattern" =>
        LET source == SetBitmap(image, render_job.segment_index)
            variant == render_job.pattern_type
        IN  /\ DOMAIN canvas.cells
                  = (0..(source.width - 1)) \X (0..(source.height - 1))
            /\ \A c \in DOMAIN canvas.cells :
                  LET color == source.data[c[2] * source.width + c[1] + 1]
                      cell == canvas.cells[c]
                  IN  /\ cell.fill =
                             (IF variant \in {"Colorized", "ColorizedNoSymbols"} /\ color.a /= 0
                              THEN color ELSE White)
                      /\ cell.symbol =
                             (IF variant \in {"Colorized", "BlackAndWhite", "PaintByNumbers"}
                                 /\ color.a /= 0
                              THEN IF variant = "PaintByNumbers"
                                   THEN create_alphanumeric_symbols[PaletteIndex(color)]
                                   ELSE symbols[PaletteIndex(color)]
                              ELSE NoSymbol)
                      /\ color.a = 0 => cell.fill = White /\ cell.symbol = NoSymbol

\* A paint-by-numbers canvas of the 3 x 2 image: white cells, the cell of a
\* transparent pixel empty, the others with alphanumeric symbols.
C22_Witness ==
    /\ canvas.kind = "pattern"
    /\ render_job.pattern_type = "PaintByNumbers"
    /\ image.width = 3
    /\ image.height = 2
    /\ canvas.cells[<<1, 0>>].symbol = NoSymbol
    /\ canvas.cells[<<0, 0>>].symbol.pool = "alphanum"
    /\ canvas.cells[<<0, 0>>].fill = White

----------------------------------------------------------------------------
(* Coordinate labels *)

\* The grid lines of the canvas that carry a label on `edge`.
LabelledLines(edge) ==
    {canvas.labels[i].coord : i \in {k \in 1..Len(canvas.labels) : canvas.labels[k].edge = edge}}

\* The number of labels drawn on `edge`.
LabelCount(edge) ==
    Cardinality({k \in 1..Len(canvas.labels) : canvas.labels[k].edge = edge})

\* The grid lines 0..size of an axis starting at the logical coordinate
\* `first` that are to be labelled: the multiples of 10, the first line
\* when more than 3 units lie between it and the next multiple of 10, the
\* last line when more than 3 units lie between the previous multiple of
\* 10 and it.
QualifyingLines(first, size) ==
    {k \in 0..size : (first + k) % 10 = 0}
    \cup (IF (-first) % 10 > 3 THEN {0} ELSE {})
    \cup (IF (first + size) % 10 > 3 THEN {size} ELSE {})

\* C23: on a labelled canvas the top and the bottom edge carry exactly
\* one label for every qualifying vertical grid line, the left and the
\* right edge exactly one for every qualifying horizontal grid line, no
\* line is labelled twice on an edge, and one label padding, the longest
\* coordinate text plus four characters, is used for all four sides.
C23_LabelledGridLines ==
    (canvas.kind = "pattern" /\ render_job.add_thick_ten_grid) =>
        LET x0 == render_job.logical_first_coordinate_x
            y0 == render_job.logical_first_coordinate_y
            w == canvas.grid_width
            h == canvas.grid_height
        IN  /\ \A i \in 1..Len(canvas.labels) :
                  canvas.labels[i].edge \in {"top", "bottom", "left", "right"}
            /\ \A edge \in {"top", "bottom"} :
                  /\ LabelledLines(edge) = QualifyingLines(x0, w)
                  /\ LabelCount(edge) = Cardinality(QualifyingLines(x0, w))
            /\ \A edge \in {"left", "right"} :
                  /\ LabelledLines(edge) = QualifyingLines(y0, h)
                  /\ LabelCount(edge) = Cardinality(QualifyingLines(y0, h))
            /\ canvas.label_padding_chars
                  = 4 + SetMax({Len(ToString(v)) : v \in {x0, y0, x0 + w, y0 + h}})

\* A centered row of 14 cells from x = -7 to x = 7: labels at the first
\* line, at x = 0 and at the last line; the row of height 1 from y = -1 to
\* y = 0 has a label at y = 0 only.
C23_Witness ==
    /\ canvas.kind = "pattern"
    /\ render_job.add_thick_ten_grid
    /\ render_job.logical_first_coordinate_x = -7
    /\ canvas.grid_width = 14
    /\ LabelledLines("top") = {0, 7, 14}
    /\ LabelledLines("left") = {1}
    /\ LabelCount("bottom") = 3

----------------------------------------------------------------------------
(* The legend *)

\* The blocks of the legend, row after row.
LegendBlocks ==
    LET RECURSIVE Join(_)
        Join(k) == IF k = 0 THEN <<>> ELSE Join(k - 1) \o canvas.block_rows[k]
    IN  Join(Len(canvas.block_rows))

\* C24: the legend holds the palette entries in palette order, each exactly
\* once, in ceil(n / 5) blocks of which only the last may hold fewer than 5
\* entries, and all blocks lie in one single row.
C24_LegendBlocks ==
    canvas.kind = "legend" =>
        LET n == Len(color_mappings)
            blocks == LegendBlocks
        IN  /\ Len(blocks) = (n + 4) \div 5
            /\ \A k \in 1..Len(blocks) :
                  Len(blocks[k]) = IF k < Len(blocks) THEN 5 ELSE n - 5 * (k - 1)
            /\ \A j \in 1..n :
                  LET entry == blocks[((j - 1) \div 5) + 1][((j - 1) % 5) + 1]
                  IN  /\ entry.color = color_mappings[j].color
                      /\ entry.symbol = color_mappings[j].symbol
            /\ Len(canvas.block_rows) <= 1
            /\ n > 0 => canvas.block_rows = <<blocks>>

\* The legend of 22 colours: five blocks, the last of two entries, in one
\* row.
C24_Witness ==
    /\ canvas.kind = "legend"
    /\ Len(color_mappings) = 22
    /\ Len(canvas.block_rows) = 1
    /\ Len(canvas.block_rows[1]) = 5
    /\ Len(canvas.block_rows[1][5]) = 2
    /\ canvas.block_rows[1][5][2].color = color_mappings[22].color

\* The columns and rows of segments of the image.
SegmentColumns == (image.width + (SPLIT_SEGMENT_WIDTH - 1)) \div SPLIT_SEGMENT_WIDTH
SegmentRows == (image.height + (SPLIT_SEGMENT_HEIGHT - 1)) \div SPLIT_SEGMENT_HEIGHT

\* The boxes of the page overview that lie at column c, row r.
BoxesAt(c, r) ==
    {i \in 1..Len(canvas.page_layout.pages) :
        canvas.page_layout.pages[i].pos_index = [x |-> c, y |-> r]}

\* C25: the legend has a page overview exactly when the image has more
\* than one segment; the overview is a grid of as many columns and rows of
\* boxes as the segments have, and every position of the grid holds
\* exactly one box, the numbered box of the segment at that column and row.
C25_PageOverview ==
    canvas.kind = "legend" =>
        LET layout == canvas.page_layout
            coordinates == Segments(image).coordinates
        IN  /\ (layout /= NoPageLayout) <=> (SegmentColumns * SegmentRows > 1)
            /\ layout /= NoPageLayout =>
                  /\ layout.num_columns = SegmentColumns
                  /\ layout.num_rows = SegmentRows
                  /\ layout.page_count = SegmentColumns * SegmentRows
                  /\ Len(layout.pages) = Len(coordinates)
                  /\ \A i \in 1..Len(layout.pages) :
                        /\ layout.pages[i].pos_index = coordinates[i]
                        /\ BoxesAt(coordinates[i].x, coordinates[i].y) = {i}
                  /\ \A c \in 0..(SegmentColumns - 1), r \in 0..(SegmentRows - 1) :
                        Cardinality(BoxesAt(c, r)) = 1

\* The legend of an image of 121 x 81 pixels: three columns and two rows of
\* boxes, the sixth box at column 2, row 1.
C25_Witness ==
    /\ canvas.kind = "legend"
    /\ image.width = 2 * SPLIT_SEGMENT_WIDTH + 1
    /\ image.height = SPLIT_SEGMENT_HEIGHT + 1
    /\ canvas.page_layout.num_columns = 3
    /\ canvas.page_layout.num_rows = 2
    /\ BoxesAt(2, 1) = {6}
    /\ canvas.page_layout.pages[6].text = "6"

----------------------------------------------------------------------------
(* Segmentation *)

\* Segment i holds the image pixel (x, y): (x, y) lies in the rectangle of
\* the segment's size that starts at (60 c, 80 r) for its tile (c, r), and
\* the segment's pixel at that offset is the image's pixel.
SegmentHolds(i, x, y) ==
    LET segment == canvas.segment_images[i]
        left == SPLIT_SEGMENT_WIDTH * canvas.segment_coordinates[i].x
        top == SPLIT_SEGMENT_HEIGHT * canvas.segment_coordinates[i].y
    IN  /\ left <= x /\ x < left + segment.width
        /\ top <= y /\ y < top + segment.height
        /\ BitmapGet(segment, x - left, y - top) = BitmapGet(image, x, y)

\* The number of pixels the first k segments hold.
RECURSIVE SegmentPixels(_)
SegmentPixels(k) ==
    IF k = 0 THEN 0 ELSE SegmentPixels(k - 1) + Len(canvas.segment_images[k].data)

\* C26: the segments are at most 60 x 80 pixels, every pixel of the image
\* lies in exactly one segment, at the offset from (60 c, 80 r) of the
\* segment's tile (c, r), the segments hold no other pixels, and the tile
\* positions are listed row by row.
C26_Segmentation ==
    canvas.kind = "segments" =>
        LET count == Len(canvas.segment_images)
            columns == SegmentColumns
        IN  /\ Len(canvas.segment_coordinates) = count
            /\ count = SegmentColumns * SegmentRows
            /\ \A i \in 1..count :
                  LET segment == canvas.segment_images[i]
                  IN  /\ segment.width \in 1..SPLIT_SEGMENT_WIDTH
                      /\ segment.height \in 1..SPLIT_SEGMENT_HEIGHT
                      /\ Len(segment.data) = segment.width * segment.height
                      /\ canvas.segment_coordinates[i]
                            = [x |-> (i - 1) % columns, y |-> (i - 1) \div columns]
            /\ \A x \in 0..(image.width - 1), y \in 0..(image.height - 1) :
                  Cardinality({i \in 1..count : SegmentHolds(i, x, y)}) = 1
            /\ SegmentPixels(count) = image.width * image.height

\* The image of 121 x 81 pixels: six segments, the fifth at tile (1, 1)
\* holds the pixel (60, 80) at its corner, the sixth is 1 x 1.
C26_Witness ==
    /\ canvas.kind = "segments"
    /\ image.width = 2 * SPLIT_SEGMENT_WIDTH + 1
    /\ image.height = SPLIT_SEGMENT_HEIGHT + 1
    /\ Len(canvas.segment_images) = 6
    /\ canvas.segment_coordinates[5] = [x |-> 1, y |-> 1]
    /\ canvas.segment_images[5].data[1] = PixelRGBA(60, 80, 0, 255)
    /\ canvas.segment_images[6].width = 1
    /\ canvas.segment_images[6].height = 1

----------------------------------------------------------------------------
(* Numbers of segments *)

PatternVariants == SegmentVariants \cup {"paint_by_numbers_"}

\* The path of the file `name` in the directory of the current image for
\* the coordinate mode `mode`.
PathIn(mode, name) == [dir |-> get_image_output_dir(CurrentFile, mode), name |-> name]

\* The canvas shows, cell by cell, the pixels of the tile of at most
\* 60 x 80 pixels at the 0-based row-major index i of the image.
ShowsSegment(content, i) ==
    LET left == SPLIT_SEGMENT_WIDTH * (i % SegmentColumns)
        top == SPLIT_SEGMENT_HEIGHT * (i \div SegmentColumns)
    IN  /\ content.grid_width = Min2(SPLIT_SEGMENT_WIDTH, image.width - left)
        /\ content.grid_height = Min2(SPLIT_SEGMENT_HEIGHT, image.height - top)
        /\ \A x \in 0..(content.grid_width - 1), y \in 0..(content.grid_height - 1) :
              LET color == BitmapGet(image, left + x, top + y)
                  cell == content.cells[<<x, y>>]
              IN  IF color.a = 0
                  THEN cell.fill = White /\ cell.symbol = NoSymbol
                  ELSE /\ cell.fill \in {White, color}
                       /\ cell.symbol \in {NoSymbol, color_mappings[PaletteIndex(color)].symbol}
                       /\ cell.fill = color \/ cell.symbol /= NoSymbol

\* C27: in both coordinate modes a file suffixed segment_(i + 1) holds the
\* canvas of the segment at the 0-based row-major index i under the banner
\* "Pattern Part (i + 1)", the legend's overview numbers the box at that
\* segment's column and row i + 1, and the canvases of the complete set
\* carry no banner.
C27_SegmentNumbers ==
    \A mode \in {"", "centered"} :
        /\ \A prefix \in PatternVariants :
              /\ \A i \in 0..(SegmentColumns * SegmentRows) :
                    LET p == PathIn(mode, SegmentName(CurrentFile, prefix, i + 1))
                    IN  p \in DOMAIN files =>
                            /\ i < SegmentColumns * SegmentRows
                            /\ files[p].content.kind = "pattern"
                            /\ files[p].content.banner
                                  = "\n Pattern Part " \o ToString(i + 1) \o " \n"
                            /\ ShowsSegment(files[p].content, i)
              /\ LET p == PathIn(mode, CurrentFile.name \o "_" \o prefix \o "complete.png")
                 IN  p \in DOMAIN files =>
                         /\ files[p].content.banner = ""
                         /\ files[p].content.grid_width = image.width
                         /\ files[p].content.grid_height = image.height
        /\ LET p == PathIn(mode, CurrentFile.name \o "_legend.png")
           IN  (p \in DOMAIN files /\ SegmentColumns * SegmentRows > 1) =>
                   \A i \in 0..(SegmentColumns * SegmentRows - 1) :
                       LET box == files[p].content.page_layout.pages[i + 1]
                       IN  /\ box.text = ToString(i + 1)
                           /\ box.pos_index = [x |-> i % SegmentColumns,
                                               y |-> i \div SegmentColumns]
        /\ \A p \in DOMAIN files :
              p.dir = get_image_output_dir(CurrentFile, mode) =>
                  \/ p.name = CurrentFile.name \o "_legend.png"
                  \/ \E prefix \in PatternVariants :
                        \/ p.name = CurrentFile.name \o "_" \o prefix \o "complete.png"
                        \/ \E i \in 0..(SegmentColumns * SegmentRows - 1) :
                              p.name = SegmentName(CurrentFile, prefix, i + 1)

\* The black and white pattern of the fourth segment of the image of two
\* rows of two segments, in centered coordinates: one cell under the
\* banner of part 4.
C27_Witness ==
    /\ CurrentFile.name = "pages"
    /\ LET p == PathIn("centered", SegmentName(CurrentFile, "cross_stitch_", 4))
       IN  /\ p \in DOMAIN files
           /\ files[p].content.banner = "\n Pattern Part 4 \n"
           /\ files[p].content.grid_width = 1
           /\ files[p].content.grid_height = 1

\* The legend of the same image numbers the box at column 1, row 1 with 4.
C27_WitnessLegend ==
    /\ CurrentFile.name = "pages"
    /\ LET p == PathIn("", CurrentFile.name \o "_legend.png")
       IN  /\ p \in DOMAIN files
           /\ files[p].content.page_layout.pages[4]
                 = [pos_index |-> [x |-> 1, y |-> 1], text |-> "4"]

----------------------------------------------------------------------------
(* Palette lookups *)

\* The colours of the palette.
PaletteColorsOf(mappings) == {mappings[i].color : i \in 1..Len(mappings)}

\* Every pixel of the bitmap with alpha /= 0 is a key of the palette.
PixelsAreKeys(bitmap) ==
    \A i \in 1..Len(bitmap.data) :
        bitmap.data[i].a /= 0 => bitmap.data[i] \in PaletteColorsOf(color_mappings)

\* C28: every pixel with alpha /= 0 of the image, of each of its segments
\* and of the preview's transparently padded bitmap is a key of the
\* palette, and no job's color_mappings.get(..).unwrap() meets a missing
\* key: no cell of a written canvas and no stitch of a written preview
\* stands for a failed lookup.
C28_LookupsSucceed ==
    /\ PixelsAreKeys(image)
    /\ \A i \in 1..Len(Segments(image).images) : PixelsAreKeys(Segments(image).images[i])
    /\ PixelsAreKeys(BitmapExtended(image, 10, Transparent))
    /\ \A p \in DOMAIN files :
          LET content == files[p].content
          IN  /\ content.kind = "pattern" =>
                    \A c \in DOMAIN content.cells : content.cells[c].symbol /= UnwrapFailed
              /\ content.kind \in {"preview", "preview_stitches"} =>
                    \A k \in 1..Len(content.stitches) : content.stitches[k].found

\* The preview of the image of 61 x 81 pixels: its stitches are all found,
\* and there are fewer stitches than pixels of the padded bitmap.
C28_Witness ==
    /\ CurrentFile.name = "pages"
    /\ render_job.kind = "preview"
    /\ \E p \in DOMAIN files :
          /\ files[p].content.kind = "preview"
          /\ Len(files[p].content.stitches) > 0
          /\ Len(files[p].content.stitches)
                < files[p].content.width * files[p].content.height
          /\ \A k \in 1..Len(files[p].content.stitches) : files[p].content.stitches[k].found

\* The colorized pattern of a segment of the same image: a symbol on every
\* cell that is not transparent.
C28_WitnessSegment ==
    /\ CurrentFile.name = "pages"
    /\ render_job.kind = "pattern"
    /\ render_job.segment_index = 2
    /\ \E p \in DOMAIN files :
          /\ files[p].content.kind = "pattern"
          /\ \E c \in DOMAIN files[p].content.cells :
                files[p].content.cells[c].symbol \notin {NoSymbol, UnwrapFailed}

----------------------------------------------------------------------------
(* Symbols of colours *)

\* The entries of a legend.
LegendEntries(content) ==
    UNION {UNION {{content.block_rows[r][b][e] : e \in 1..Len(content.block_rows[r][b])} :
                     b \in 1..Len(content.block_rows[r])} :
              r \in 1..Len(content.block_rows)}

\* The pattern sets of `file`: 0 for the complete set, i for segment i.
SetsOf(file) ==
    LET count == Len(Segments(file.bitmap).images)
    IN  {0} \cup (IF count > 1 THEN 1..count ELSE {})

SetName(i) == IF i = 0 THEN "complete" ELSE "segment_" \o ToString(i)

SetCorner(file, i) ==
    LET columns == (file.bitmap.width + (SPLIT_SEGMENT_WIDTH - 1)) \div SPLIT_SEGMENT_WIDTH
    IN  IF i = 0 THEN [x |-> 0, y |-> 0]
        ELSE [x |-> SPLIT_SEGMENT_WIDTH * ((i - 1) % columns),
              y |-> SPLIT_SEGMENT_HEIGHT * ((i - 1) \div columns)]

\* The canvas at path p shows set i of `file` with, on every cell of a
\* colour of the legend at path l, the symbol of that colour's entry.
SymbolsAsInLegend(file, l, p, i) ==
    LET entries == LegendEntries(files[l].content)
        content == files[p].content
        corner == SetCorner(file, i)
    IN  \A c \in DOMAIN content.cells :
            LET color == BitmapGet(file.bitmap, corner.x + c[1], corner.y + c[2])
            IN  color.a /= 0 =>
                    /\ Cardinality({e \in entries : e.color = color}) = 1
                    /\ \A e \in entries : e.color = color => content.cells[c].symbol = e.symbol

\* C29: whatever jobs have run, in whatever order, the colorized and the
\* black and white canvas of the complete set and of every segment, in both
\* coordinate modes, carry on every cell the graphic symbol that the entry
\* of the cell's colour carries in the legend of either mode.
C29_OneSymbolPerColor ==
    \A k \in 1..Len(image_filepaths) :
        \A legend_mode \in {"", "centered"}, mode \in {"", "centered"} :
            \A prefix \in {"cross_stitch_colorized_", "cross_stitch_"} :
                \A i \in SetsOf(image_filepaths[k]) :
                    LET file == image_filepaths[k]
                        l == [dir |-> get_image_output_dir(file, legend_mode),
                              name |-> file.name \o "_legend.png"]
                        p == [dir |-> get_image_output_dir(file, mode),
                              name |-> file.name \o "_" \o prefix \o SetName(i) \o ".png"]
                    IN  (l \in DOMAIN files /\ p \in DOMAIN files) =>
                            SymbolsAsInLegend(file, l, p, i)

\* All jobs of the image of 61 x 1 pixels have run: the legend has three
\* entries with three different symbols, and the black and white canvas of
\* segment 2 in centered coordinates carries the symbol of its one pixel.
C29_Witness ==
    /\ image_filepaths[1] = WideFile
    /\ JobsDone(1)
    /\ LET l == [dir |-> get_image_output_dir(WideFile, ""), name |-> "wide_legend.png"]
           p == [dir |-> get_image_output_dir(WideFile, "centered"),
                 name |-> "wide_cross_stitch_segment_2.png"]
       IN  /\ l \in DOMAIN files
           /\ p \in DOMAIN files
           /\ Cardinality({e.symbol : e \in LegendEntries(files[l].content)}) = 3
           /\ \E e \in LegendEntries(files[l].content) :
                 /\ e.color = BitmapGet(WideFile.bitmap, SPLIT_SEGMENT_WIDTH, 0)
                 /\ files[p].content.cells[<<0, 0>>].symbol = e.symbol

----------------------------------------------------------------------------
(* Thick lines and labels *)

\* The grid line a thick line at the offset `pixel` from the corner of the
\* cells lies on: a line drawn from a cell's corner on, and the closing
\* line drawn 2 pixels before the far border of the cells.
GridLineOf(pixel) ==
    IF pixel % TILE_SIZE = 0 THEN pixel \div TILE_SIZE ELSE (pixel + 2) \div TILE_SIZE

\* The grid lines of the canvas with a thick line, columns and rows.
ThickColumns ==
    {GridLineOf(px) : px \in LineXs(canvas, VerticalLines(canvas, COLOR_GRID_THICK, 2))}

ThickRows ==
    {GridLineOf(py) : py \in LineYs(canvas, HorizontalLines(canvas, COLOR_GRID_THICK, 2))}

\* The grid lines with a label on `edge` whose logical coordinate, the
\* first coordinate plus the grid line, is a multiple of 10.
TenLabels(edge, first) == {k \in LabelledLines(edge) : (first + k) % 10 = 0}

\* C30: on a canvas rendered with the thick 10-grid, padded for an origin
\* bar at its edge or not, the columns of the grid with a thick line are
\* the columns with a label of a multiple of 10 on the top edge and on the
\* bottom edge, and the rows with a thick line are the rows with such a
\* label on the left edge and on the right edge.
C30_ThickLinesAndLabels ==
    (canvas.kind = "pattern" /\ render_job.add_thick_ten_grid) =>
        /\ \A px \in LineXs(canvas, VerticalLines(canvas, COLOR_GRID_THICK, 2)) :
              px % TILE_SIZE = 0 \/ px = TILE_SIZE * canvas.grid_width - 2
        /\ \A py \in LineYs(canvas, HorizontalLines(canvas, COLOR_GRID_THICK, 2)) :
              py % TILE_SIZE = 0 \/ py = TILE_SIZE * canvas.grid_height - 2
        /\ \A edge \in {"top", "bottom"} :
              ThickColumns = TenLabels(edge, render_job.logical_first_coordinate_x)
        /\ \A edge \in {"left", "right"} :
              ThickRows = TenLabels(edge, render_job.logical_first_coordinate_y)

\* The second segment of the row of 120 pixels in centered coordinates: the
\* canvas is padded by 2 pixels on the left for the origin bar, and the
\* columns 0, 10, ..., 60 carry a thick line and a label, the last one the
\* closing line.
C30_Witness ==
    /\ canvas.kind = "pattern"
    /\ render_job.add_thick_ten_grid
    /\ render_job.add_origin_grid_bars
    /\ render_job.logical_first_coordinate_x = 0
    /\ canvas.scaled_bitmap.cell_x0 = 2
    /\ canvas.scaled_bitmap.width = TILE_SIZE * canvas.grid_width + 2
    /\ canvas.grid_width = SPLIT_SEGMENT_WIDTH
    /\ ThickColumns = {0, 10, 20, 30, 40, 50, 60}
    /\ TenLabels("top", 0) = ThickColumns
====
